---- MODULE Spec2Model ----
(***************************************************************************)
(* State-machine model of the market-data service: the BTreeMap Orderbook  *)
(* (src/src/orderbook.rs), the FastOrderbook (src/src/fast_orderbook.rs),  *)
(* the gRPC service (src/src/grpc_server.rs), the PerMarketCircuitBreaker, *)
(* the market registry, the ingest paths, the mark-price service, the      *)
(* StopOrderManager and its locks, the binary and JSON file tailers, the   *)
(* RateLimitInterceptor, the ingest loop of the RobustOrderProcessor with  *)
(* its CircuitBreaker, and the OrderParser's statistics.                   *)
(*                                                                         *)
(* Each subsystem has its own specification (SpecOB, SpecFast, SpecCB,     *)
(* ...); the variables of the other subsystems stay at their initial       *)
(* values.                                                                 *)
(***************************************************************************)
EXTENDS Integers, Sequences, FiniteSets, TLC

VARIABLES
    ob,       \* the Orderbook: [bids, asks, orders, sequence]
    ob_ret,   \* what the last Orderbook call returned (get_snapshot) or "unit"
    fob,      \* the FastOrderbook: [bid_levels, ask_levels, sequence, bid_count, ask_count, total_orders]
    fob_ret,  \* what the last FastOrderbook / GetOrderbook call returned
    breakers, \* PerMarketCircuitBreaker.breakers: market id -> MarketCircuitBreaker
    global_validation_breaker, \* PerMarketCircuitBreaker.global_validation_breaker
    now,      \* the monotonic clock read by Instant::now()
    cb_call,  \* the PerMarketCircuitBreaker call of the last step: [op, market]
    fail_run, \* history: per market, the failures recorded since its last recorded success
    succ_run, \* history: per market, the successes recorded since its last failure or its last move to HalfOpen
    reg,      \* the DynamicMarketRegistry: [markets, coin_to_id, market_info, symbol_to_id, last_update]
    refresh,  \* the refresh_markets call in progress: [pc, new], pc 0 when none is
    reg_seen, \* what a reader's last group of lookups returned
    parser,   \* the OrderParser's counters: [total_messages, parse_failures, validation_failures]
    ing,      \* the feed of the process and its last step: [path, line, ret, update],
              \* line the oid, side, status and is_trigger of the line it took
    bus,      \* the MarketUpdate broadcast channel: [tail, buf], buf its retained messages
    task,     \* the stream task of a subscribe_orderbook call:
              \* [pc, requested, todo, next, hand, got, out]; got and out are history
    chan,     \* the subscriber's mpsc channel: [queue, open], open while the client holds the stream
    mbook,    \* per market, what calculate_hl_mark_price reads and writes of its FastOrderbook
    svc,      \* the MarkPriceService task: [pc, calculation_version, todo, market, cache]
    mark_tx,  \* the MarkPriceUpdateEvents sent on the mark-price channel, oldest first
    stops,    \* the StopOrderManager: [orders_by_market, all_orders]
    stop_ret, \* what the last rank_stop_orders call was given and returned
    rl,       \* the RateLimitInterceptor and its clock: [limits, clock, log], log a history
    sub,      \* a subscriber's stream task beside the ingest task:
              \* [pc, adding, updates, next, read, sent, books]; books is history
    loop,     \* the ingest loop of process_orders and its CircuitBreaker: [state, error_count,
              \* window_start, clock, lines, ...]; applied, failed, recovered are history
    locks,    \* the two RwLocks of the StopOrderManager and the calls that take them:
              \* [holder, pc, arg, calls]
    jtail,    \* a JSON-lines file and its tailers: [len, file_positions, last_position,
              \* sent, deltas]; sent and deltas are history
    stat,     \* a stats() call beside parse_line calls: [writer, reader, calls, fields,
              \* total, failures, stats]
    tail      \* a binary order-status file and its tailers: [file, partial, last_position,
              \* file_position, sent]

vars == <<ob, ob_ret, fob, fob_ret, breakers, global_validation_breaker, now, cb_call, fail_run,
          succ_run, reg, refresh, reg_seen, parser, ing, bus, task, chan, mbook, svc, mark_tx,
          stops, stop_ret, tail, rl, sub, loop, locks, jtail, stat>>

----------------------------------------------------------------------------
(* Bounds of the model *)

\* calls made on the Orderbook, and on the FastOrderbook, in one behaviour
MaxSeq == 4
MaxFastSeq == 3
\* calls made on the Orderbook of one price level
MaxLevelOps == 6
\* significant bits of the floating-point format
MantBits == 3

OrderIds == {1, 2}
Prices == {1, 2, 3}
Sides == {"Buy", "Sell"}
\* Order sizes: values the floating-point format represents exactly, whose
\* sum it does not (as 0.1 and 0.2 in f64).
Sizes == {6, 7}

----------------------------------------------------------------------------
(* f64 arithmetic on sizes.  Sizes are integers in units of the smallest   *)
(* step; a value keeps MantBits significant bits (f64 keeps 53), and a     *)
(* sum or difference is rounded to nearest, ties to even, as IEEE 754 does. *)

RECURSIVE Pow2(_)
Pow2(n) == IF n = 0 THEN 1 ELSE 2 * Pow2(n - 1)

\* the unit in the last place of magnitude m: the least power of two u with
\* m < u * 2^MantBits
RECURSIVE Ulp(_, _)
Ulp(m, u) == IF m < u * Pow2(MantBits) THEN u ELSE Ulp(m, 2 * u)

FRoundMag(m) ==
    LET u == Ulp(m, 1)
        q == m \div u
        r == m % u
    IN  IF 2 * r < u THEN q * u
        ELSE IF 2 * r > u THEN (q + 1) * u
        ELSE IF q % 2 = 0 THEN q * u ELSE (q + 1) * u

FRound(x) == IF x < 0 THEN -FRoundMag(-x) ELSE FRoundMag(x)

FAdd(a, b) == FRound(a + b)
FSub(a, b) == FRound(a - b)

\* orders.iter().map(|o| o.size).sum(): a left fold from 0.0
RECURSIVE FSumSizes(_)
FSumSizes(orders) ==
    IF orders = <<>> THEN 0
    ELSE FAdd(FSumSizes(SubSeq(orders, 1, Len(orders) - 1)), orders[Len(orders)].size)

----------------------------------------------------------------------------
(* Helpers on maps and vectors *)

EmptyMap == [k \in {} |-> 0]

MapRemove(m, k) == [j \in DOMAIN m \ {k} |-> m[j]]
MapInsert(m, k, v) == [j \in DOMAIN m \cup {k} |-> IF j = k THEN v ELSE m[j]]

SetMax(S) == CHOOSE x \in S : \A y \in S : y <= x
SetMin(S) == CHOOSE x \in S : \A y \in S : x <= y

\* the elements of a set of integers in ascending order (BTreeMap iteration)
RECURSIVE Ascending(_)
Ascending(S) == IF S = {} THEN <<>> ELSE <<SetMin(S)>> \o Ascending(S \ {SetMin(S)})

\* Iterator::take(n)
Take(s, n) == SubSeq(s, 1, IF n < Len(s) THEN n ELSE Len(s))

\* Vec::remove(i) for the 0-based index i
VecRemove(s, i) == SubSeq(s, 1, i) \o SubSeq(s, i + 2, Len(s))

\* Vec::swap_remove(i) for the 0-based index i: the last element takes the
\* place of the removed one
SwapRemove(s, i) ==
    [j \in 1..(Len(s) - 1) |-> IF j = i + 1 THEN s[Len(s)] ELSE s[j]]

\* Vec::insert(i, x) for the 0-based index i
VecInsert(s, i, x) == SubSeq(s, 1, i) \o <<x>> \o SubSeq(s, i + 1, Len(s))

----------------------------------------------------------------------------
(* Orderbook (src/src/orderbook.rs) *)

\* Orderbook::with_limits arguments
max_orders_per_level == 2
max_levels_per_side == 2
max_total_orders == 3

Order(id, side, price, size) == [id |-> id, side |-> side, price |-> price, size |-> size]

\* the Orderbook only sums sizes (get_snapshot): one size is enough there
OBSizes == {6}

OBOrders == {Order(i, s, p, z) : i \in OrderIds, s \in Sides, p \in Prices, z \in OBSizes}

\* the BTreeMap key: OrderedFloat(-price) for bids, OrderedFloat(price) for asks
PriceKey(side, price) == IF side = "Buy" THEN -price ELSE price

OBNew == [bids |-> EmptyMap, asks |-> EmptyMap, orders |-> EmptyMap, sequence |-> 0]

OBSide(b, side) == IF side = "Buy" THEN b.bids ELSE b.asks

OBWithSide(b, side, book) ==
    IF side = "Buy" THEN [b EXCEPT !.bids = book] ELSE [b EXCEPT !.asks = book]

\* mutant of worst_price: the first key of the map
worst_price_first(book) == SetMin(DOMAIN book)

\* book.keys().last(): the lowest bid (keys are negated prices), the highest ask
worst_price(book) == SetMax(DOMAIN book)

\* add_order of a book built with_limits(per_level, per_side, total)
ob_add_order_limits(b, order, per_level, per_side, total) ==
    IF Cardinality(DOMAIN b.orders) >= total THEN b
    ELSE
    LET key == PriceKey(order.side, order.price)
        book0 == OBSide(b, order.side)
        \* too many price levels: drop the last key of the map
        book1 == IF Cardinality(DOMAIN book0) >= per_side
                    /\ key \notin DOMAIN book0
                    /\ DOMAIN book0 # {}
                 THEN MapRemove(book0, worst_price(book0))
                 ELSE book0
        level0 == IF key \in DOMAIN book1 THEN book1[key] ELSE <<>>
        evict == Len(level0) >= per_level /\ level0 # <<>>
        index0 == IF evict THEN MapRemove(b.orders, level0[1].id) ELSE b.orders
        level1 == IF evict THEN VecRemove(level0, 0) ELSE level0
        index == Len(level1)
        level2 == Append(level1, order)
        book2 == MapInsert(book1, key, level2)
        index1 == MapInsert(index0, order.id,
                            [side |-> order.side, price |-> order.price, index |-> index])
    IN  [OBWithSide(b, order.side, book2) EXCEPT
            !.orders = index1, !.sequence = b.sequence + 1]

ob_add_order(b, order) ==
    ob_add_order_limits(b, order, max_orders_per_level, max_levels_per_side, max_total_orders)

ob_cancel_order(b, order_id) ==
    LET b1 == [b EXCEPT !.sequence = b.sequence + 1]
    IN  IF order_id \notin DOMAIN b.orders THEN b1
        ELSE
        LET location == b.orders[order_id]
            b2 == [b1 EXCEPT !.orders = MapRemove(b.orders, order_id)]
            book == OBSide(b, location.side)
            key == PriceKey(location.side, location.price)
        IN  IF key \in DOMAIN book /\ location.index < Len(book[key])
            THEN LET level == SwapRemove(book[key], location.index)
                 IN  IF level = <<>>
                     THEN OBWithSide(b2, location.side, MapRemove(book, key))
                     ELSE OBWithSide(b2, location.side, MapInsert(book, key, level))
            ELSE b2

ob_update_order(b, order) ==
    ob_add_order(IF order.id \in DOMAIN b.orders THEN ob_cancel_order(b, order.id) ELSE b,
                 order)

ob_clear(b) == [bids |-> EmptyMap, asks |-> EmptyMap, orders |-> EmptyMap, sequence |-> 0]

\* (price, quantity) of the first `depth` levels in key order; depth 0 takes all
OBLevels(book, depth, isBid) ==
    LET keys == Ascending(DOMAIN book)
        kept == IF depth = 0 THEN keys ELSE Take(keys, depth)
    IN  [i \in 1..Len(kept) |->
            [price |-> IF isBid THEN -kept[i] ELSE kept[i],
             quantity |-> FSumSizes(book[kept[i]])]]

ob_get_snapshot(b, depth) ==
    [bids |-> OBLevels(b.bids, depth, TRUE), asks |-> OBLevels(b.asks, depth, FALSE)]

----------------------------------------------------------------------------
(* FastOrderbook (src/src/fast_orderbook.rs) *)

FastOrder(id, price, size) == [id |-> id, price |-> price, size |-> size]

FastOrders == {FastOrder(i, p, z) : i \in OrderIds, p \in Prices, z \in Sizes}

FastNew ==
    [bid_levels |-> <<>>, ask_levels |-> <<>>, sequence |-> 0,
     bid_count |-> 0, ask_count |-> 0, total_orders |-> 0]

\* PriceLevel::new
PriceLevelNew(price) == [price |-> price, total_size |-> 0, orders |-> <<>>]

\* PriceLevel::add_order
LevelAddOrder(level, order) ==
    [level EXCEPT !.orders = Append(level.orders, order),
                  !.total_size = FAdd(level.total_size, order.size)]

\* orders.iter().position(|o| o.id == order_id): 0-based, -1 for None
LevelPosition(level, order_id) ==
    IF \E i \in 1..Len(level.orders) : level.orders[i].id = order_id
    THEN SetMin({i \in 1..Len(level.orders) : level.orders[i].id = order_id}) - 1
    ELSE -1

\* PriceLevel::remove_order: [removed, level]
LevelRemoveOrder(level, order_id) ==
    LET pos == LevelPosition(level, order_id)
    IN  IF pos >= 0
        THEN [removed |-> TRUE,
              level |-> [level EXCEPT
                            !.orders = VecRemove(level.orders, pos),
                            !.total_size = FSub(level.total_size, level.orders[pos + 1].size)]]
        ELSE [removed |-> FALSE, level |-> level]

\* mutant of LevelCmp: the bid side's .reverse() is missing
LevelCmpNoReverse(level_price, price, is_buy) ==
    IF level_price < price THEN "Less"
    ELSE IF level_price > price THEN "Greater" ELSE "Equal"

\* the comparator of binary_search_by: the level's price against the probe,
\* reversed on the bid side
LevelCmp(level_price, price, is_buy) ==
    LET c == IF level_price < price THEN "Less"
             ELSE IF level_price > price THEN "Greater" ELSE "Equal"
    IN  IF ~is_buy THEN c
        ELSE IF c = "Less" THEN "Greater" ELSE IF c = "Greater" THEN "Less" ELSE c

\* slice::binary_search_by over levels[lo..hi]: [found, idx], idx 0-based
RECURSIVE BinarySearch(_, _, _, _, _)
BinarySearch(levels, price, is_buy, lo, hi) ==
    IF lo >= hi THEN [found |-> FALSE, idx |-> lo]
    ELSE LET mid == lo + ((hi - lo) \div 2)
             c == LevelCmp(levels[mid + 1].price, price, is_buy)
         IN  IF c = "Equal" THEN [found |-> TRUE, idx |-> mid]
             ELSE IF c = "Less" THEN BinarySearch(levels, price, is_buy, mid + 1, hi)
             ELSE BinarySearch(levels, price, is_buy, lo, mid)

FindLevel(levels, price, is_buy) == BinarySearch(levels, price, is_buy, 0, Len(levels))

\* the find-or-create arm of add_order on one side: [levels, created]
SideAddOrder(levels, order, is_buy) ==
    LET pos == FindLevel(levels, order.price, is_buy)
    IN  IF pos.found
        THEN [levels |-> [levels EXCEPT ![pos.idx + 1] = LevelAddOrder(@, order)],
              created |-> FALSE]
        ELSE [levels |-> VecInsert(levels, pos.idx,
                                   LevelAddOrder(PriceLevelNew(order.price), order)),
              created |-> TRUE]

fob_add_order(f, order, is_buy) ==
    LET f1 == [f EXCEPT !.sequence = f.sequence + 1, !.total_orders = f.total_orders + 1]
    IN  IF is_buy
        THEN LET r == SideAddOrder(f.bid_levels, order, TRUE)
             IN  [f1 EXCEPT !.bid_levels = r.levels,
                            !.bid_count = IF r.created THEN f.bid_count + 1 ELSE f.bid_count]
        ELSE LET r == SideAddOrder(f.ask_levels, order, FALSE)
             IN  [f1 EXCEPT !.ask_levels = r.levels,
                            !.ask_count = IF r.created THEN f.ask_count + 1 ELSE f.ask_count]

\* the delta add_order returns
AddDelta(order, is_buy) ==
    [kind |-> IF is_buy THEN "AddBid" ELSE "AddAsk",
     price |-> order.price, size |-> order.size, order_id |-> order.id]

\* one side of remove_order: [removed, levels, emptied]
SideRemoveOrder(levels, order_id, price, is_buy) ==
    LET pos == FindLevel(levels, price, is_buy)
    IN  IF ~pos.found THEN [removed |-> FALSE, levels |-> levels, emptied |-> FALSE]
        ELSE LET r == LevelRemoveOrder(levels[pos.idx + 1], order_id)
             IN  IF ~r.removed
                 THEN [removed |-> FALSE, levels |-> levels, emptied |-> FALSE]
                 ELSE IF r.level.orders = <<>>
                 THEN [removed |-> TRUE, levels |-> VecRemove(levels, pos.idx),
                       emptied |-> TRUE]
                 ELSE [removed |-> TRUE,
                       levels |-> [levels EXCEPT ![pos.idx + 1] = r.level],
                       emptied |-> FALSE]

fob_remove_order(f, order_id, price, is_buy) ==
    LET f1 == [f EXCEPT !.sequence = f.sequence + 1]
        r == SideRemoveOrder(IF is_buy THEN f.bid_levels ELSE f.ask_levels,
                             order_id, price, is_buy)
    IN  IF ~r.removed THEN f1
        ELSE IF is_buy
        THEN [f1 EXCEPT !.bid_levels = r.levels,
                        !.total_orders = f.total_orders - 1,
                        !.bid_count = IF r.emptied THEN f.bid_count - 1 ELSE f.bid_count]
        ELSE [f1 EXCEPT !.ask_levels = r.levels,
                        !.total_orders = f.total_orders - 1,
                        !.ask_count = IF r.emptied THEN f.ask_count - 1 ELSE f.ask_count]

\* the Option<OrderbookDelta> remove_order returns
RemoveDelta(f, order_id, price, is_buy) ==
    IF SideRemoveOrder(IF is_buy THEN f.bid_levels ELSE f.ask_levels,
                       order_id, price, is_buy).removed
    THEN [kind |-> IF is_buy THEN "RemoveBid" ELSE "RemoveAsk",
          price |-> price, order_id |-> order_id]
    ELSE [kind |-> "None"]

fob_clear(f) ==
    [bid_levels |-> <<>>, ask_levels |-> <<>>, sequence |-> f.sequence + 1,
     bid_count |-> 0, ask_count |-> 0, total_orders |-> 0]

\* levels.iter().take(depth).map(|level| (level.price, level.total_size))
FastLevels(levels, depth) ==
    LET kept == Take(levels, depth)
    IN  [i \in 1..Len(kept) |-> [price |-> kept[i].price, quantity |-> kept[i].total_size]]

fob_get_snapshot(f, depth) ==
    [bids |-> FastLevels(f.bid_levels, depth), asks |-> FastLevels(f.ask_levels, depth)]

\* get_best_bid_ask
fob_get_best_bid_ask(f) ==
    IF f.bid_levels # <<>> /\ f.ask_levels # <<>>
    THEN [kind |-> "Some", bid |-> f.bid_levels[1].price, ask |-> f.ask_levels[1].price]
    ELSE [kind |-> "None"]

----------------------------------------------------------------------------
(* The unary GetOrderbook RPC (src/src/grpc_server.rs) over the one market  *)
(* of the model.                                                             *)

ServedMarket == 0
RequestMarkets == {0, 1}
MaxDepth == 2
Depths == 0..MaxDepth

get_orderbook(f, market_id, depth) ==
    IF market_id = ServedMarket
    THEN LET snap == fob_get_snapshot(f, depth)
         IN  [kind |-> "Snapshot", market_id |-> market_id, depth |-> depth,
              sequence |-> f.sequence, bids |-> snap.bids, asks |-> snap.asks]
    ELSE [kind |-> "NOT_FOUND", market_id |-> market_id]

----------------------------------------------------------------------------
(* PerMarketCircuitBreaker (src/src/per_market_circuit_breaker.rs) *)

\* CircuitBreakerConfig, as passed to PerMarketCircuitBreaker::new
failure_threshold == 3
success_threshold == 2
timeout == 1

MaxTime == 3
MaxEvents == 6

Markets == {0, 1}
Reason == "failure"

\* CircuitState
Closed(n) == [kind |-> "Closed", consecutive_failures |-> n]
Open(t, reason) == [kind |-> "Open", since |-> t, failure_reason |-> reason]
HalfOpen(n) == [kind |-> "HalfOpen", consecutive_successes |-> n]

NoInstant == [kind |-> "None"]
SomeInstant(t) == [kind |-> "Some", at |-> t]

\* MarketCircuitBreaker::new
MarketCircuitBreakerNew ==
    [state |-> Closed(0), last_failure_time |-> NoInstant,
     total_failures |-> 0, total_successes |-> 0]

\* mutant of BreakerSuccess: a success while Closed keeps the failure count
BreakerSuccessKeepsCount(br) ==
    LET b1 == [br EXCEPT !.total_successes = br.total_successes + 1]
    IN  IF br.state.kind = "HalfOpen"
        THEN IF br.state.consecutive_successes + 1 >= success_threshold
             THEN [b1 EXCEPT !.state = Closed(0)]
             ELSE [b1 EXCEPT !.state = HalfOpen(br.state.consecutive_successes + 1)]
        ELSE b1

\* the body of record_market_success on the breaker of the market
BreakerSuccess(br) ==
    LET b1 == [br EXCEPT !.total_successes = br.total_successes + 1]
    IN  IF br.state.kind = "Closed" THEN [b1 EXCEPT !.state = Closed(0)]
        ELSE IF br.state.kind = "HalfOpen"
        THEN IF br.state.consecutive_successes + 1 >= success_threshold
             THEN [b1 EXCEPT !.state = Closed(0)]
             ELSE [b1 EXCEPT !.state = HalfOpen(br.state.consecutive_successes + 1)]
        ELSE b1

\* the body of record_market_failure / record_validation_failure on one
\* breaker, at instant t
\* a failure that leaves a HalfOpen breaker HalfOpen
BreakerFailureKeepsHalfOpen(br, t, reason) ==
    LET b1 == [br EXCEPT !.total_failures = br.total_failures + 1,
                         !.last_failure_time = SomeInstant(t)]
    IN  IF br.state.kind = "Closed"
        THEN IF br.state.consecutive_failures + 1 >= failure_threshold
             THEN [b1 EXCEPT !.state = Open(t, reason)]
             ELSE [b1 EXCEPT !.state = Closed(br.state.consecutive_failures + 1)]
        ELSE b1

BreakerFailure(br, t, reason) ==
    LET b1 == [br EXCEPT !.total_failures = br.total_failures + 1,
                         !.last_failure_time = SomeInstant(t)]
    IN  IF br.state.kind = "Closed"
        THEN IF br.state.consecutive_failures + 1 >= failure_threshold
             THEN [b1 EXCEPT !.state = Open(t, reason)]
             ELSE [b1 EXCEPT !.state = Closed(br.state.consecutive_failures + 1)]
        ELSE IF br.state.kind = "HalfOpen" THEN [b1 EXCEPT !.state = Open(t, reason)]
        ELSE b1

\* breakers.entry(market_id).or_insert_with(MarketCircuitBreaker::new)
BreakerEntry(bs, market_id) ==
    IF market_id \in DOMAIN bs THEN bs[market_id] ELSE MarketCircuitBreakerNew

record_market_success(bs, market_id) ==
    MapInsert(bs, market_id, BreakerSuccess(BreakerEntry(bs, market_id)))

\* mutant of record_market_failure: one failure count shared by the markets
record_market_failure_shared(bs, market_id, t, reason) ==
    LET bs1 == MapInsert(bs, market_id, BreakerEntry(bs, market_id))
    IN  [m \in DOMAIN bs1 |-> BreakerFailure(bs1[m], t, reason)]

record_market_failure(bs, market_id, t, reason) ==
    MapInsert(bs, market_id, BreakerFailure(BreakerEntry(bs, market_id), t, reason))

record_validation_failure(g, t, reason) == BreakerFailure(g, t, reason)

is_market_open(bs, market_id) ==
    market_id \in DOMAIN bs /\ bs[market_id].state.kind = "Open"

is_validation_circuit_open(g) == g.state.kind = "Open"

\* mutant of TimedOut: the reset is allowed already when the timeout is reached
TimedOutInclusive(since, t) == t - since >= timeout

\* since.elapsed() > self.config.timeout, at instant t
TimedOut(since, t) == t - since > timeout

should_attempt_market_reset(bs, market_id, t) ==
    /\ market_id \in DOMAIN bs
    /\ bs[market_id].state.kind = "Open"
    /\ TimedOut(bs[market_id].state.since, t)

attempt_market_reset(bs, market_id, t) ==
    IF /\ market_id \in DOMAIN bs
       /\ bs[market_id].state.kind = "Open"
       /\ TimedOut(bs[market_id].state.since, t)
    THEN [bs EXCEPT ![market_id].state = HalfOpen(0)]
    ELSE bs

\* failures and successes recorded so far, over all breakers
RECURSIVE SumEvents(_, _)
SumEvents(bs, ms) ==
    IF ms = {} THEN 0
    ELSE LET m == CHOOSE x \in ms : TRUE
         IN  bs[m].total_failures + bs[m].total_successes + SumEvents(bs, ms \ {m})

TotalEvents ==
    SumEvents(breakers, DOMAIN breakers) + global_validation_breaker.total_failures

----------------------------------------------------------------------------
(* DynamicMarketRegistry (dynamic_markets.rs). An Option is the set of its
   values: {} for None, {v} for Some(v). *)

MaxRefresh == 2
Coins == {"BTC", "ETH"}

\* the `universe` of a meta response: assets in id order, each delisted or not
Universes ==
    {u \in [1..2 -> [name : Coins, is_delisted : BOOLEAN]] : u[1].name # u[2].name}

\* TradableProduct::from_hyperliquid_coin: "HYPERLIQUID-<coin>/USD-PERP"
from_hyperliquid_coin(coin) == <<"HYPERLIQUID", coin, "USD", "PERP">>

RegistryNew ==
    [markets |-> EmptyMap, coin_to_id |-> EmptyMap, market_info |-> EmptyMap,
     symbol_to_id |-> EmptyMap, last_update |-> 0]

\* the four maps refresh_markets builds from a universe; ids are positions
NewMaps(universe) ==
    LET active == {i \in DOMAIN universe : ~universe[i].is_delisted}
        pos(coin) == CHOOSE i \in active : universe[i].name = coin
        names == {universe[i].name : i \in active}
    IN  [markets |-> [id \in {i - 1 : i \in active} |-> universe[id + 1].name],
         coin_to_id |-> [coin \in names |-> pos(coin) - 1],
         market_info |-> [sym \in {from_hyperliquid_coin(c) : c \in names} |->
                            [id |-> pos(sym[2]) - 1, symbol |-> sym]],
         symbol_to_id |-> [sym \in {from_hyperliquid_coin(c) : c \in names} |->
                            pos(sym[2]) - 1]]

\* a coin name is not in EXCHANGE-BASE/QUOTE-TYPE form, so from_str fails
get_market_id(r, coin) ==
    IF coin \in DOMAIN r.coin_to_id THEN {r.coin_to_id[coin]}
    ELSE IF from_hyperliquid_coin(coin) \in DOMAIN r.symbol_to_id
         THEN {r.symbol_to_id[from_hyperliquid_coin(coin)]}
         ELSE {}

\* one group of lookups: get_market_id and is_valid_coin of every coin,
\* get_all_markets, list_symbols with get_market_info, market_count
Lookups(r) ==
    [market_id |-> [coin \in Coins |-> get_market_id(r, coin)],
     is_valid_coin |-> [coin \in Coins |-> coin \in DOMAIN r.coin_to_id],
     all_markets |-> {<<r.symbol_to_id[sym], sym>> : sym \in DOMAIN r.symbol_to_id},
     market_info |-> r.market_info,
     market_count |-> Cardinality(DOMAIN r.markets)]

----------------------------------------------------------------------------
(* Stop orders (src/src/stop_orders.rs) *)

\* calls made on the StopOrderManager in one behaviour
MaxStopOps == 4

StopOrder(id, user, coin, side, price, size) ==
    [id |-> id, user |-> user, coin |-> coin, side |-> side, price |-> price, size |-> size]

StopOrderManagerNew == [orders_by_market |-> EmptyMap, all_orders |-> EmptyMap]

\* no rank_stop_orders call was made yet
NoRanking == [orders |-> <<>>, book |-> <<<<>>, <<>>>>, weights |-> <<0, 0>>, ranked |-> <<>>]

\* mutant of add_stop_order: the order is dropped
add_stop_order_dropped(s, market_id, order) == s

add_stop_order(s, market_id, order) ==
    LET market_orders == IF market_id \in DOMAIN s.orders_by_market
                         THEN s.orders_by_market[market_id] ELSE EmptyMap
        user_orders == IF order.user \in DOMAIN market_orders
                       THEN market_orders[order.user] ELSE <<>>
    IN [orders_by_market |->
            MapInsert(s.orders_by_market, market_id,
                      MapInsert(market_orders, order.user, Append(user_orders, order))),
        all_orders |-> MapInsert(s.all_orders, order.id, order)]

\* remove_stop_order; the loop over the markets stops at the first one that
\* holds the user, `first`, which the HashMap's iteration order decides
remove_stop_order(s, order_id, first) ==
    IF order_id \notin DOMAIN s.all_orders THEN s
    ELSE LET order == s.all_orders[order_id]
             all_orders == MapRemove(s.all_orders, order_id)
         IN IF first \notin DOMAIN s.orders_by_market
               \/ order.user \notin DOMAIN s.orders_by_market[first]
            THEN [s EXCEPT !.all_orders = all_orders]
            ELSE LET user_orders == SelectSeq(s.orders_by_market[first][order.user],
                                              LAMBDA o : o.id # order_id)
                     market_orders ==
                         IF user_orders = <<>>
                         THEN MapRemove(s.orders_by_market[first], order.user)
                         ELSE MapInsert(s.orders_by_market[first], order.user, user_orders)
                 IN [orders_by_market |-> MapInsert(s.orders_by_market, first, market_orders),
                     all_orders |-> all_orders]

\* the markets at which the loop of remove_stop_order can stop for a user
FirstMarkets(s, user) ==
    LET holding == {m \in DOMAIN s.orders_by_market : user \in DOMAIN s.orders_by_market[m]}
    IN IF holding = {} THEN {0} ELSE holding

\* A JSON-lines file (file_monitor.rs process_file, market_processor.rs
\* process_json_updates). Every line is JsonLineLen bytes of JSON and a
\* newline, so the length of the file gives its bytes: the byte at offset
\* o is a newline when o % JsonRecord = JsonRecord - 1.
JsonLineLen == 3
MaxJsonLines == 3
JsonRecord == JsonLineLen + 1

\* the file is empty, nothing was read; sent and deltas are the lines the
\* FileMonitor and the MarketProcessor took, by number, in order
JsonTailNew == [len |-> 0, file_positions |-> 0, last_position |-> 0,
                sent |-> <<>>, deltas |-> <<>>]

\* the next item of BufRead::lines() at offset pos of a file of len bytes:
\* the bytes up to the next newline, or up to the end of the file when
\* there is no newline yet; {} at the end of the file
next_line(len, pos) ==
    IF pos >= len THEN {}
    ELSE LET newline == pos + (JsonRecord - 1 - (pos % JsonRecord))
         IN  {[start |-> pos,
               length |-> IF newline < len THEN newline - pos ELSE len - pos]}

\* serde_json::from_str on a line: the whole JSON text of a line parses,
\* a part of one does not; {} for Err, {number of the line} for Ok
json_from_str(line) ==
    IF line.start % JsonRecord = 0 /\ line.length = JsonLineLen
    THEN {line.start \div JsonRecord + 1}
    ELSE {}

\* the loop over reader.lines() from offset pos, for at most n items:
\* [position, taken]
RECURSIVE json_pass(_, _, _)
json_pass(len, pos, n) ==
    IF n = 0 \/ next_line(len, pos) = {} THEN [position |-> pos, taken |-> <<>>]
    ELSE LET line == CHOOSE l \in next_line(len, pos) : TRUE
             rest == json_pass(len, pos + line.length + 1, n - 1)
             parsed == json_from_str(line)
         IN  [position |-> rest.position,
              taken |-> IF line.length = 0 \/ parsed = {} THEN rest.taken
                        ELSE <<CHOOSE k \in parsed : TRUE>> \o rest.taken]

\* OrderParser::stats beside parse_line (order_parser.rs). The counters
\* are u64 in the source and CounterBits wide here.
MaxStatLines == 3
MaxStatsCalls == 2
CounterBits == 8

\* no parse_line and no stats call is under way; fields, total and failures
\* are what a stats call has loaded so far, stats what the last call returned
ParserStatsNew ==
    [writer |-> "idle", reader |-> "idle", calls |-> 0,
     fields |-> [total_messages |-> 0, parse_failures |-> 0, validation_failures |-> 0],
     total |-> 0, failures |-> 0, stats |-> {}]

\* total - failures on unsigned counters: the build with overflow checks
\* panics when failures > total, the build without them wraps
counter_sub(total, failures) ==
    IF failures <= total THEN {[panic |-> FALSE, value |-> total - failures]}
    ELSE {[panic |-> TRUE, value |-> 0],
          [panic |-> FALSE, value |-> (total - failures) % (2 ^ CounterBits)]}

\* calculate_success_rate after its loads, to the whole percent below
success_rate(total, difference) == (difference * 100) \div total

\* the threads that call the StopOrderManager at the same time, and the
\* calls they make in one behaviour
Threads == {1, 2}
MaxLockCalls == 3

\* the two RwLocks of the StopOrderManager: the thread that holds each for
\* writing (0: none), each thread's place in its call, and the call's
\* arguments
StopLocksNew ==
    [holder |-> [l \in {"orders_by_market", "all_orders"} |-> 0],
     pc |-> [t \in Threads |-> "idle"],
     arg |-> [t \in Threads |-> [market_id |-> 0, order |-> StopOrder(0, "", "", "", 0, 0)]],
     calls |-> 0]

\* mutant of calculate_slippage's test for no fill: any fill counts as none
cannot_fill_any(filled_size) == filled_size >= 0

\* the test under which calculate_slippage gives its 1000 bps: nothing filled
cannot_fill(filled_size) == ~(filled_size > 0)

\* calculate_slippage over levels <<price, size>>; quotients are taken to the
\* whole bps below
calculate_slippage(order, orderbook_levels) ==
    LET RECURSIVE walk(_, _, _, _)
        walk(i, remaining_size, total_cost, filled_size) ==
            IF i > Len(orderbook_levels) \/ remaining_size <= 0
            THEN <<total_cost, filled_size>>
            ELSE LET fill_size == IF remaining_size <= orderbook_levels[i][2]
                                  THEN remaining_size ELSE orderbook_levels[i][2]
                 IN walk(i + 1, remaining_size - fill_size,
                         total_cost + fill_size * orderbook_levels[i][1],
                         filled_size + fill_size)
        done == walk(1, order.size, 0, 0)
    IN IF cannot_fill(done[2]) THEN 1000
       ELSE LET avg_fill_price == done[1] \div done[2]
                diff == IF avg_fill_price >= order.price THEN avg_fill_price - order.price
                        ELSE order.price - avg_fill_price
            IN (diff * 10000) \div order.price

\* mutant of distance_score: no floor at 0
distance_score_unfloored(distance_to_trigger_bps) ==
    100 - distance_to_trigger_bps

\* (100.0 - distance_to_trigger_bps.min(100.0)).max(0.0)
distance_score(distance_to_trigger_bps) ==
    LET capped == IF distance_to_trigger_bps <= 100 THEN distance_to_trigger_bps ELSE 100
    IN IF 100 - capped >= 0 THEN 100 - capped ELSE 0

\* rank_stop_orders; mid_prices and orderbooks are maps from market id, a
\* book is <<bids, asks>>. The sort is stable, as sort_by is.
rank_stop_orders(orders, mid_prices, books, distance_weight, slippage_weight) ==
    LET market_of(coin) == IF coin = "BTC" THEN {0} ELSE IF coin = "ETH" THEN {1} ELSE {}
        rank(order, market_id) ==
            LET mid_price == mid_prices[market_id]
                is_buy == order.side = "B"
                is_stop_loss == (is_buy /\ order.price > mid_price)
                                \/ (~is_buy /\ order.price < mid_price)
                distance_to_trigger_bps ==
                    IF is_stop_loss = is_buy
                    THEN ((order.price - mid_price) * 10000) \div mid_price
                    ELSE ((mid_price - order.price) * 10000) \div mid_price
                expected_slippage_bps ==
                    calculate_slippage(order, IF is_buy THEN books[market_id][2]
                                              ELSE books[market_id][1])
                slippage_score == IF expected_slippage_bps <= 100 THEN expected_slippage_bps
                                  ELSE 100
            IN [order |-> order,
                distance_to_trigger_bps |-> distance_to_trigger_bps,
                expected_slippage_bps |-> expected_slippage_bps,
                risk_score |-> distance_weight * distance_score(distance_to_trigger_bps)
                               + slippage_weight * slippage_score,
                notional_value |-> order.price * order.size]
        RECURSIVE ranked(_)
        ranked(i) ==
            IF i = 0 THEN <<>>
            ELSE LET known == {m \in market_of(orders[i].coin) :
                                  m \in DOMAIN mid_prices /\ m \in DOMAIN books}
                 IN ranked(i - 1)
                    \o (IF known = {} THEN <<>>
                        ELSE <<rank(orders[i], CHOOSE m \in known : TRUE)>>)
        RECURSIVE insert(_, _)
        insert(sorted, r) ==
            IF sorted = <<>> THEN <<r>>
            ELSE IF sorted[Len(sorted)].risk_score >= r.risk_score THEN Append(sorted, r)
            ELSE Append(insert(SubSeq(sorted, 1, Len(sorted) - 1), r), sorted[Len(sorted)])
        RECURSIVE sort(_)
        sort(n) == IF n = 0 THEN <<>> ELSE insert(sort(n - 1), ranked(Len(orders))[n])
    IN sort(Len(ranked(Len(orders))))

----------------------------------------------------------------------------
(* The ingest paths onto a FastOrderbook: OrderParser with
   RobustOrderProcessor::process_single_order (order_parser.rs,
   robust_order_processor.rs), and the JSON and binary tails of
   MarketProcessor (market_processor.rs). An f64 is an integer, or PosInf,
   or NaN, which compares false with everything. *)

MaxLines == 2
max_price == 3
max_size == 7
PosInf == 100
NaN == 1000

IngestPrices == {0, 1, max_price + 1, PosInf, NaN}
IngestSizes == {0, 6, max_size + 1}

\* the lines that are JSON of an OrderMessage / OrderStatusUpdate
Lines ==
    [oid : OrderIds, coin : Coins, side : {"B", "A"}, limit_px : IngestPrices,
     sz : IngestSizes, status : {"open", "filled", "canceled", "Rejected"},
     is_trigger : BOOLEAN]

\* the 38-byte records of a binary file
BinaryRecords ==
    [order_id : OrderIds, market_id : RequestMarkets, price : IngestPrices,
     size : IngestSizes, is_buy : BOOLEAN, status : 0..3]

\* what a step keeps of a line that is not JSON, or of no line
NoLine == [oid |-> 0, side |-> "", status |-> "", is_trigger |-> FALSE]

\* OrderParser::validate_order: {} for Err, {ValidatedOrder} for Ok
validate_order(msg) ==
    IF \/ (msg.limit_px # NaN /\ msg.limit_px <= 0)
       \/ (msg.limit_px # NaN /\ msg.limit_px > max_price)
       \/ msg.limit_px \in {NaN, PosInf}
       \/ (msg.sz # NaN /\ msg.sz <= 0)
       \/ (msg.sz # NaN /\ msg.sz > max_size)
       \/ msg.sz \in {NaN, PosInf}
       \/ msg.coin \notin Coins         \* allowed_coins
       \/ msg.side \notin {"B", "A"}
    THEN {}
    ELSE {[id |-> msg.oid, coin |-> msg.coin, is_buy |-> msg.side = "B",
           price |-> msg.limit_px, size |-> msg.sz, status |-> msg.status,
           is_trigger |-> msg.is_trigger]}

\* FastOrderbook::remove_bid / remove_ask (not in fast_orderbook.rs): the
\* order of this id leaves its level on the side, wherever it rests
remove_side(f, order_id, is_buy) ==
    LET levels == IF is_buy THEN f.bid_levels ELSE f.ask_levels
        holds == {i \in 1..Len(levels) : LevelPosition(levels[i], order_id) >= 0}
    IN  IF holds = {} THEN [f EXCEPT !.sequence = f.sequence + 1]
        ELSE fob_remove_order(f, order_id, levels[SetMin(holds)].price, is_buy)

\* process_validated_order: [book, stops, delta]; add_bid / add_ask (not in
\* fast_orderbook.rs) are add_order on their side. The lines of the model
\* are those of one user.
process_validated_order(f, s, order, market_id) ==
    IF order.status = "Rejected"
    THEN [book |-> f, stops |-> s, delta |-> [kind |-> "None"]]
    ELSE IF order.is_trigger
    THEN [book |-> f,
          stops |-> IF order.status = "open"
                    THEN add_stop_order(s, market_id,
                                        StopOrder(order.id, "user", order.coin,
                                                  IF order.is_buy THEN "B" ELSE "A",
                                                  order.price, order.size))
                    ELSE s,
          delta |-> [kind |-> "None"]]
    ELSE IF order.status = "open"
    THEN [book |-> fob_add_order(f, FastOrder(order.id, order.price, order.size),
                                 order.is_buy),
          stops |-> s,
          delta |-> AddDelta(FastOrder(order.id, order.price, order.size), order.is_buy)]
    ELSE IF order.status \in {"filled", "canceled"}
    THEN [book |-> remove_side(f, order.id, order.is_buy),
          stops |-> s,
          delta |-> [kind |-> IF order.is_buy THEN "RemoveBid" ELSE "RemoveAsk",
                     price |-> order.price, order_id |-> order.id]]
    ELSE [book |-> f, stops |-> s, delta |-> [kind |-> "None"]]

\* MarketUpdate { market_id, sequence, deltas } as an Option: sent when
\* there is a delta
MarketUpdate(market_id, book, delta) ==
    IF delta.kind = "None" THEN {}
    ELSE {[market_id |-> market_id, sequence |-> book.sequence, deltas |-> <<delta>>]}

\* process_single_order on a line that parsed: [book, stops, ret, update, valid]
process_single_order(f, s, line) ==
    LET v == validate_order(line)
    IN  IF v = {}
        THEN [book |-> f, stops |-> s, ret |-> "Err", update |-> {}, valid |-> FALSE]
        ELSE LET order == CHOOSE o \in v : TRUE
                 market_id == IF order.coin = "BTC" THEN 0 ELSE 1
                 r == process_validated_order(f, s, order, market_id)
             IN  IF market_id # ServedMarket
                 THEN [book |-> f, stops |-> s, ret |-> "Err", update |-> {}, valid |-> TRUE]
                 ELSE [book |-> r.book,
                       stops |-> r.stops,
                       ret |-> IF r.delta.kind = "None" THEN "Ok(false)" ELSE "Ok(true)",
                       update |-> MarketUpdate(market_id, r.book, r.delta),
                       valid |-> TRUE]

\* MarketProcessor::process_order and the match of process_binary_updates,
\* on the parsed fields: [book, delta, panic]. partial_cmp(..).unwrap()
\* panics when the binary search compares with a NaN, after the counters
\* were bumped.
process_order(f, status, order_id, price, size, is_buy) ==
    LET levels == IF is_buy THEN f.bid_levels ELSE f.ask_levels
        nan == levels # <<>> /\ (price = NaN \/ levels[1].price = NaN)
        order == FastOrder(order_id, price, size)
    IN  IF status = "open"
        THEN IF nan
             THEN [book |-> [f EXCEPT !.sequence = f.sequence + 1,
                                      !.total_orders = f.total_orders + 1],
                   delta |-> [kind |-> "None"], panic |-> TRUE]
             ELSE [book |-> fob_add_order(f, order, is_buy),
                   delta |-> AddDelta(order, is_buy), panic |-> FALSE]
        ELSE IF status \in {"filled", "canceled", "cancelled"}
        THEN IF nan
             THEN [book |-> [f EXCEPT !.sequence = f.sequence + 1],
                   delta |-> [kind |-> "None"], panic |-> TRUE]
             ELSE [book |-> fob_remove_order(f, order_id, price, is_buy),
                   delta |-> RemoveDelta(f, order_id, price, is_buy), panic |-> FALSE]
        ELSE [book |-> f, delta |-> [kind |-> "None"], panic |-> FALSE]

----------------------------------------------------------------------------
(* Fan-out of MarketUpdates to a subscriber (grpc_server.rs
   subscribe_orderbook over tokio's broadcast and mpsc channels) *)

BusCap == 2
QueueCap == 2
MaxPublish == 4

\* the keys of DeltaStreamingService.orderbooks; market 2 has no book
orderbooks == {0, 1}

\* mutant of broadcast_recv: a lagged receiver resumes at the oldest message
broadcast_recv_resumes(b, next) ==
    IF next = b.tail THEN [kind |-> "Empty"]
    ELSE IF b.tail - next > BusCap THEN [kind |-> "Ok", update |-> b.buf[1]]
    ELSE [kind |-> "Ok", update |-> b.buf[Len(b.buf) - (b.tail - next) + 1]]

\* broadcast::Receiver::recv for a receiver that took `next` messages:
\* Lagged when its next message was overwritten, Empty when it must wait
broadcast_recv(b, next) ==
    IF b.tail - next > BusCap THEN [kind |-> "Lagged"]
    ELSE IF next = b.tail THEN [kind |-> "Empty"]
    ELSE [kind |-> "Ok", update |-> b.buf[Len(b.buf) - (b.tail - next) + 1]]

\* mutant of forwards: no filter on the requested markets
forwards_all(requested, market_id) == market_id \in orderbooks

\* the two conditions under which the task builds a snapshot for an update
forwards(requested, market_id) == market_id \in requested /\ market_id \in orderbooks

----------------------------------------------------------------------------
(* Mark prices (mark_price_v2.rs, FastOrderbook::calculate_hl_mark_price and
   the tick of mark_price_service.rs). Prices are even integers, so that the
   halves taken by the medians are exact, as they are in f64. *)

MaxTicks == 3

\* an Option<f64> as a sequence of length 0 or 1
OptSeq(opt) == IF opt = {} THEN <<>> ELSE <<CHOOSE p \in opt : TRUE>>

\* calculate_median: the middle of the sorted values, the mean of the two
\* middle ones when their number is even
calculate_median(values) ==
    LET sorted == SortSeq(values, LAMBDA a, b : a < b)
        len == Len(values)
    IN IF len = 0 THEN 0
       ELSE IF len % 2 = 0 THEN (sorted[len \div 2] + sorted[len \div 2 + 1]) \div 2
       ELSE sorted[len \div 2 + 1]

\* the CEXPrices values update_cex_prices is called with: no venue, one
\* venue, two venues of equal weight, four venues
CexInputs ==
    LET CEXPrices(binance, okx, bybit, gate, mexc) ==
            [binance |-> binance, okx |-> okx, bybit |-> bybit, gate |-> gate, mexc |-> mexc]
    IN {CEXPrices({}, {}, {}, {}, {}), CEXPrices({4}, {}, {}, {}, {}),
        CEXPrices({}, {2}, {6}, {}, {}), CEXPrices({2}, {4}, {}, {8}, {8})}

\* calculate_cex_weighted_median: every venue's price repeated by its weight
calculate_cex_weighted_median(cex) ==
    LET rep(opt, n) == IF opt = {} THEN <<>> ELSE [i \in 1..n |-> CHOOSE p \in opt : TRUE]
        weighted_values == rep(cex.binance, 3) \o rep(cex.okx, 2) \o rep(cex.bybit, 2)
                           \o rep(cex.gate, 1) \o rep(cex.mexc, 1)
    IN IF weighted_values = <<>> THEN {} ELSE {calculate_median(weighted_values)}

\* EMACalculator::update, the calculator held as its value numerator /
\* denominator ({} before the first sample): the first sample is the value;
\* later the value is a mean of the old value and the sample whose weights
\* depend on the time elapsed, the old value at t = 0 and the sample once
\* exp(-t / time_constant) is 0. The result is the set of possible values.
ema_update(ema, sample) ==
    IF ema = {} THEN {sample}
    ELSE LET old == CHOOSE v \in ema : TRUE
         IN IF old <= sample THEN old..sample ELSE sample..old

\* mutant of needs_fallback: the mid EMA joins any incomplete set of inputs
needs_fallback_incomplete(len) == len <= 2

\* the test on median_inputs.len() that lets the mid EMA in
needs_fallback(len) == len = 2

\* calculate_mark_price; fallback and ema_basis are the values the two EMA
\* updates of this call produce. Returns the calculator and the result.
calculate_mark_price(calc, inputs, fallback, ema_basis) ==
    LET last_trade_price ==
            IF inputs.last_trade # {} THEN inputs.last_trade ELSE calc.last_trade_price
        oracle_adjusted == {oracle + ema_basis : oracle \in inputs.oracle_price}
        internal_median ==
            calculate_median(<<inputs.best_bid, inputs.best_ask>> \o OptSeq(last_trade_price))
        cex_median ==
            IF inputs.cex_prices = {} THEN {}
            ELSE calculate_cex_weighted_median(CHOOSE cex \in inputs.cex_prices : TRUE)
        three == OptSeq(oracle_adjusted) \o <<internal_median>> \o OptSeq(cex_median)
        \* get_value() of the mid EMA, just updated: its denominator is positive
        used_fallback == needs_fallback(Len(three)) /\ {fallback} # {}
        median_inputs == IF used_fallback THEN Append(three, fallback) ELSE three
    IN [calc |-> [oracle_basis_ema |->
                      IF inputs.oracle_price = {} THEN calc.oracle_basis_ema ELSE {ema_basis},
                  fallback_mid_ema |-> {fallback},
                  last_oracle_price |->
                      IF inputs.oracle_price = {} THEN calc.last_oracle_price
                      ELSE inputs.oracle_price,
                  last_trade_price |-> last_trade_price],
        result |-> [mark_price |-> calculate_median(median_inputs),
                    oracle_adjusted |-> oracle_adjusted,
                    internal_median |-> internal_median,
                    cex_median |-> cex_median,
                    used_fallback |-> used_fallback]]

\* what calculate_hl_mark_price reads and writes of a FastOrderbook: the
\* prices of its first bid and ask level (none when the side is empty), the
\* three optional inputs, the calculator as HyperliquidMarkPriceCalculator::new
\* leaves it and the last result
MarkBookNew ==
    [best_bid |-> {}, best_ask |-> {}, last_trade_price |-> {}, oracle_price |-> {},
     cex_prices |-> {},
     hl_mark_price_calc |-> [oracle_basis_ema |-> {}, fallback_mid_ema |-> {},
                             last_oracle_price |-> {}, last_trade_price |-> {}],
     last_hl_mark_price |-> {}]

\* the values the EMA updates of a calculation on book b can produce
EmaOutcomes(b) ==
    LET mid_price == ((CHOOSE p \in b.best_bid : TRUE) + (CHOOSE p \in b.best_ask : TRUE)) \div 2
    IN { <<fallback, ema_basis>> \in
           ema_update(b.hl_mark_price_calc.fallback_mid_ema, mid_price)
           \X (IF b.oracle_price = {} THEN {0}
               ELSE UNION {ema_update(b.hl_mark_price_calc.oracle_basis_ema, mid_price - oracle)
                           : oracle \in b.oracle_price}) : TRUE }

\* FastOrderbook::calculate_hl_mark_price: None, and nothing stored, when a
\* side is empty; outcome is a member of EmaOutcomes(b) otherwise
calculate_hl_mark_price(b, outcome) ==
    IF b.best_bid = {} \/ b.best_ask = {} THEN b
    ELSE LET inputs == [best_bid |-> CHOOSE p \in b.best_bid : TRUE,
                        best_ask |-> CHOOSE p \in b.best_ask : TRUE,
                        last_trade |-> b.last_trade_price,
                        oracle_price |-> b.oracle_price,
                        cex_prices |-> b.cex_prices]
             done == calculate_mark_price(b.hl_mark_price_calc, inputs, outcome[1], outcome[2])
         IN [b EXCEPT !.hl_mark_price_calc = done.calc, !.last_hl_mark_price = {done.result}]

\* mutant of MarkPriceUpdateEvent: the version counts the markets published
MarkPriceUpdateEventCounted(market_id, result, calculation_version, tick) ==
    [market_id |-> market_id, hl_mark_price |-> result.mark_price,
     calculation_version |-> calculation_version + market_id, tick |-> tick]

\* the MarkPriceUpdateEvent the service sends; tick is history, the number of
\* the tick that sent it
MarkPriceUpdateEvent(market_id, result, calculation_version, tick) ==
    [market_id |-> market_id, hl_mark_price |-> result.mark_price,
     calculation_version |-> calculation_version, tick |-> tick]

----------------------------------------------------------------------------
(* Tailing a binary order-status file (market_processor.rs
   process_binary_updates / process_binary_mmap, file_monitor.rs
   process_binary_file). The file is its complete records and the bytes of
   a record its writer has not finished. *)

\* records the file may hold in one behaviour
MaxRecords == 3

ORDER_SIZE == 38

TailNew == [file |-> <<>>, partial |-> 0, last_position |-> 0, file_position |-> 0, sent |-> 0]

FileLen(t) == ORDER_SIZE * Len(t.file) + t.partial

\* mutant of complete_records: a started record counts as one
complete_records_started(data_len) == (data_len + ORDER_SIZE - 1) \div ORDER_SIZE

\* the records a pass can take from data_len bytes: the loop goes on while
\* offset + ORDER_SIZE <= data.len(), read_exact while ORDER_SIZE bytes are left
complete_records(data_len) == IF data_len < 0 THEN 0 ELSE data_len \div ORDER_SIZE

\* the record whose ORDER_SIZE bytes start at a position, as an Option
record_at(t, position) ==
    IF position % ORDER_SIZE = 0 /\ position \div ORDER_SIZE < Len(t.file)
    THEN {t.file[position \div ORDER_SIZE + 1]} ELSE {}

\* the book after the loop of process_binary_mmap / process_binary_updates
\* took n records from a position
RECURSIVE binary_pass(_, _, _, _)
binary_pass(f, t, position, n) ==
    IF n = 0 THEN f
    ELSE LET g == binary_pass(f, t, position, n - 1)
             at == record_at(t, position + (n - 1) * ORDER_SIZE)
         IN  IF at = {} THEN g
             ELSE LET rec == CHOOSE r \in at : TRUE
                  IN  IF rec.market_id # ServedMarket THEN g
                      ELSE process_order(g,
                                         CASE rec.status = 0 -> "open"
                                           [] rec.status \in {1, 2} -> "filled"
                                           [] OTHER -> "other",
                                         rec.order_id, rec.price, rec.size, rec.is_buy).book

\* the OrderStatus messages process_binary_file sends for n records from a
\* position: one per record of a monitored market
RECURSIVE monitored(_, _, _)
monitored(t, position, n) ==
    IF n = 0 THEN 0
    ELSE monitored(t, position, n - 1)
         + (IF \E r \in record_at(t, position + (n - 1) * ORDER_SIZE) :
                  r.market_id = ServedMarket
            THEN 1 ELSE 0)

----------------------------------------------------------------------------
(* RateLimitInterceptor (auth_interceptor.rs); times are whole seconds *)

max_requests_per_minute == 2
\* check_rate_limit calls in one behaviour, and the last second of the clock
MaxCalls == 5
MaxClock == 125

RateLimitInterceptorNew == [limits |-> EmptyMap, clock |-> 0, log |-> <<>>]

\* mutant of window_elapsed: every call opens a new window
window_elapsed_always(at, window_start) == at - window_start >= 0

\* now.duration_since(rate_limit.window_start).as_secs() >= 60
window_elapsed(at, window_start) == at - window_start >= 60

\* check_rate_limit at second `at`: [limits, ok], ok FALSE for
\* Err(Status::resource_exhausted)
check_rate_limit(limits, client_id, at) ==
    LET entry == IF client_id \in DOMAIN limits THEN limits[client_id]
                 ELSE [count |-> 0, window_start |-> at]
        rate_limit == IF window_elapsed(at, entry.window_start)
                      THEN [count |-> 0, window_start |-> at] ELSE entry
    IN  IF rate_limit.count >= max_requests_per_minute
        THEN [limits |-> MapInsert(limits, client_id, rate_limit), ok |-> FALSE]
        ELSE [limits |-> MapInsert(limits, client_id,
                                   [rate_limit EXCEPT !.count = @ + 1]),
              ok |-> TRUE]

----------------------------------------------------------------------------
(* The ingest loop (robust_order_processor.rs process_orders) and its
   CircuitBreaker; times are whole seconds *)

error_threshold == 2
error_window == 3
circuit_timeout == 1
\* lines the loop takes in one behaviour, and the last second of its clock
MaxLoopLines == 6
MaxLoopClock == 6

\* what process_single_order makes of a line: an Open order of a market
\* with a book is applied (Ok(true)), a trigger order is set aside
\* (Ok(false)), a line that fails validation for its market, or that is not
\* an order of any market (market -1), is an Err
LoopLines ==
    {[kind |-> k, market |-> m] : k \in {"open", "trigger", "invalid"}, m \in {0, 1}}
    \cup {[kind |-> "garbage", market |-> -1]}

\* the state after the constructors: error_count and window_start are the
\* locals of process_orders; applied, failed, recovered, errors_since_close
\* and last are history
ProcessOrdersNew ==
    [state |-> [kind |-> "Closed", since |-> 0], error_count |-> 0, window_start |-> 0,
     clock |-> 0, lines |-> 0, applied |-> [m \in {0, 1} |-> 0], failed |-> {},
     recovered |-> FALSE, errors_since_close |-> 0,
     last |-> [line |-> [kind |-> "none", market |-> -1], outcome |-> "none"]]

\* CircuitBreaker::attempt_reset
circuit_attempt_reset(state, at) ==
    IF state.kind = "Open" /\ at - state.since > circuit_timeout
    THEN [kind |-> "HalfOpen", since |-> 0] ELSE state

\* CircuitBreaker::record_success
circuit_record_success(state) ==
    IF state.kind = "HalfOpen" THEN [kind |-> "Closed", since |-> 0] ELSE state

\* CircuitBreaker::record_failure
circuit_record_failure(state, at) ==
    IF state.kind = "HalfOpen" THEN [kind |-> "Open", since |-> at] ELSE state

\* CircuitBreaker::trip
circuit_trip(at) == [kind |-> "Open", since |-> at]

\* one iteration of the while loop of process_orders on a line
process_orders_line(l, line) ==
    LET at == l.clock
        expired == at - l.window_start > error_window
        error_count == IF expired THEN 0 ELSE l.error_count
        window_start == IF expired THEN at ELSE l.window_start
        state == circuit_attempt_reset(l.state, at)
        l1 == [l EXCEPT !.error_count = error_count, !.window_start = window_start,
                        !.lines = @ + 1, !.state = state]
    IN  IF state.kind = "Open"
        THEN [l1 EXCEPT !.last = [line |-> line, outcome |-> "skipped"]]
        ELSE IF line.kind = "open"
        THEN [l1 EXCEPT !.state = circuit_record_success(state),
                        !.applied[line.market] = @ + 1,
                        !.recovered = @ \/ state.kind = "HalfOpen",
                        !.errors_since_close = IF state.kind = "HalfOpen" THEN 0 ELSE @,
                        !.last = [line |-> line, outcome |-> "Ok(true)"]]
        ELSE IF line.kind = "trigger"
        THEN [l1 EXCEPT !.last = [line |-> line, outcome |-> "Ok(false)"]]
        ELSE [l1 EXCEPT !.error_count = error_count + 1,
                        !.state = IF error_count + 1 >= error_threshold THEN circuit_trip(at)
                                  ELSE circuit_record_failure(state, at),
                        !.failed = @ \cup {line.market},
                        !.errors_since_close = @ + 1,
                        !.last = [line |-> line, outcome |-> "Err"]]

----------------------------------------------------------------------------
(* Initial states *)

NoCall == [op |-> "none", market |-> 0]

InitOB == ob = OBNew /\ ob_ret = [kind |-> "unit"]
InitFast == fob = FastNew /\ fob_ret = [kind |-> "unit"]
InitCB ==
    /\ breakers = EmptyMap
    /\ global_validation_breaker = MarketCircuitBreakerNew
    /\ now = 0
    /\ cb_call = NoCall
    /\ fail_run = [m \in Markets |-> 0]
    /\ succ_run = [m \in Markets |-> 0]

\* the other components start as their constructors leave them
InitLater ==
    /\ reg = RegistryNew
    /\ refresh = [pc |-> 0, new |-> RegistryNew]
    /\ reg_seen = Lookups(RegistryNew)
    /\ parser = [total_messages |-> 0, parse_failures |-> 0, validation_failures |-> 0]
    /\ ing = [path |-> "none", line |-> NoLine, ret |-> "none", update |-> {}]
    /\ bus = [tail |-> 0, buf |-> <<>>]
    /\ task = [pc |-> "none", requested |-> {}, todo |-> {}, next |-> 0, hand |-> {},
               got |-> 0, out |-> 0]
    /\ chan = [queue |-> <<>>, open |-> FALSE]
    /\ mbook = [m \in orderbooks |-> MarkBookNew]
    /\ svc = [pc |-> "sleep", calculation_version |-> 0, todo |-> {}, market |-> 0,
              cache |-> EmptyMap]
    /\ mark_tx = <<>>
    /\ stops = StopOrderManagerNew
    /\ stop_ret = NoRanking
    /\ tail = TailNew
    /\ rl = RateLimitInterceptorNew
    /\ sub = [pc |-> "none", adding |-> {}, updates |-> <<>>, next |-> 0,
              read |-> fob_get_snapshot(FastNew, 50), sent |-> <<>>, books |-> <<>>]
    /\ loop = ProcessOrdersNew
    /\ locks = StopLocksNew
    /\ jtail = JsonTailNew
    /\ stat = ParserStatsNew

Init == InitOB /\ InitFast /\ InitCB /\ InitLater

varsOB == <<ob, ob_ret>>
varsFast == <<fob, fob_ret>>
varsCB == <<breakers, global_validation_breaker, now, cb_call, fail_run, succ_run>>
varsReg == <<reg, refresh, reg_seen>>
varsIngest == <<parser, ing, stops, stop_ret, tail>>
varsStream == <<bus, task, chan, rl, sub>>
varsMark == <<mbook, svc, mark_tx>>
varsCore == <<varsOB, varsFast, varsCB>>
varsRest == <<loop, locks, jtail, stat>>
varsLater == <<varsReg, varsIngest, varsStream, varsMark, varsRest>>
varsEarlier == <<varsCore, varsReg, varsIngest, varsStream, varsMark>>

----------------------------------------------------------------------------
(* Orderbook operations *)

OBAddOrder(order) ==
    /\ ob.sequence < MaxSeq
    /\ ob' = ob_add_order(ob, order)
    /\ ob_ret' = [kind |-> "unit"]
    /\ UNCHANGED <<varsFast, varsCB, varsLater>>

OBCancelOrder(order_id) ==
    /\ ob.sequence < MaxSeq
    /\ ob' = ob_cancel_order(ob, order_id)
    /\ ob_ret' = [kind |-> "unit"]
    /\ UNCHANGED <<varsFast, varsCB, varsLater>>

OBUpdateOrder(order) ==
    /\ ob.sequence + 1 < MaxSeq
    /\ ob' = ob_update_order(ob, order)
    /\ ob_ret' = [kind |-> "unit"]
    /\ UNCHANGED <<varsFast, varsCB, varsLater>>

OBClear ==
    /\ ob' = ob_clear(ob)
    /\ ob_ret' = [kind |-> "unit"]
    /\ UNCHANGED <<varsFast, varsCB, varsLater>>

OBGetSnapshot(depth) ==
    /\ ob_ret' = [kind |-> "Snapshot", depth |-> depth,
                  bids |-> ob_get_snapshot(ob, depth).bids,
                  asks |-> ob_get_snapshot(ob, depth).asks]
    /\ UNCHANGED <<ob, varsFast, varsCB, varsLater>>

NextOB ==
    \/ \E order \in OBOrders : OBAddOrder(order)
    \/ \E order_id \in OrderIds : OBCancelOrder(order_id)
    \/ \E order \in OBOrders : OBUpdateOrder(order)
    \/ OBClear
    \/ \E depth \in Depths : OBGetSnapshot(depth)

SpecOB == Init /\ [][NextOB]_vars

\* add_order on a book built with_limits(3, 2, 4): a bid at price 1 that the
\* feed stamped with its arrival, under an id that is not resting
LevelAdd(id) ==
    /\ ob.sequence < MaxLevelOps
    /\ id \notin DOMAIN ob.orders
    /\ ob' = ob_add_order_limits(ob, [id |-> id, side |-> "Buy", price |-> 1, size |-> 6,
                                       timestamp |-> ob.sequence + 1], 3, 2, 4)
    /\ ob_ret' = [kind |-> "unit"]
    /\ UNCHANGED <<varsFast, varsCB, varsLater>>

\* cancel_order on that book, of a resting order
LevelCancel(order_id) ==
    /\ ob.sequence < MaxLevelOps
    /\ order_id \in DOMAIN ob.orders
    /\ ob' = ob_cancel_order(ob, order_id)
    /\ ob_ret' = [kind |-> "unit"]
    /\ UNCHANGED <<varsFast, varsCB, varsLater>>

\* adds and cancels at one price level
NextLevel ==
    \/ \E id \in 1..4 : LevelAdd(id)
    \/ \E order_id \in 1..4 : LevelCancel(order_id)

SpecLevel == Init /\ [][NextLevel]_vars

----------------------------------------------------------------------------
(* FastOrderbook operations and the GetOrderbook RPC *)

FastAddOrder(order, is_buy) ==
    /\ fob.sequence < MaxFastSeq
    /\ fob' = fob_add_order(fob, order, is_buy)
    /\ fob_ret' = AddDelta(order, is_buy)
    /\ UNCHANGED <<varsOB, varsCB, varsLater>>

FastRemoveOrder(order_id, price, is_buy) ==
    /\ fob.sequence < MaxFastSeq
    /\ fob' = fob_remove_order(fob, order_id, price, is_buy)
    /\ fob_ret' = RemoveDelta(fob, order_id, price, is_buy)
    /\ UNCHANGED <<varsOB, varsCB, varsLater>>

FastClear ==
    /\ fob.sequence < MaxFastSeq
    /\ fob' = fob_clear(fob)
    /\ fob_ret' = [kind |-> "unit"]
    /\ UNCHANGED <<varsOB, varsCB, varsLater>>

GetOrderbook(market_id, depth) ==
    /\ fob_ret' = get_orderbook(fob, market_id, depth)
    /\ UNCHANGED <<fob, varsOB, varsCB, varsLater>>

NextFast ==
    \/ \E order \in FastOrders, is_buy \in BOOLEAN : FastAddOrder(order, is_buy)
    \/ \E order_id \in OrderIds, price \in Prices, is_buy \in BOOLEAN :
            FastRemoveOrder(order_id, price, is_buy)
    \/ FastClear
    \/ \E market_id \in RequestMarkets, depth \in Depths : GetOrderbook(market_id, depth)

SpecFast == Init /\ [][NextFast]_vars

----------------------------------------------------------------------------
(* PerMarketCircuitBreaker operations *)

RecordMarketSuccess(market_id) ==
    /\ TotalEvents < MaxEvents
    /\ breakers' = record_market_success(breakers, market_id)
    /\ cb_call' = [op |-> "record_market_success", market |-> market_id]
    /\ fail_run' = [fail_run EXCEPT ![market_id] = 0]
    /\ succ_run' = [succ_run EXCEPT ![market_id] = @ + 1]
    /\ UNCHANGED <<global_validation_breaker, now, varsOB, varsFast, varsLater>>

RecordMarketFailure(market_id) ==
    /\ TotalEvents < MaxEvents
    /\ breakers' = record_market_failure(breakers, market_id, now, Reason)
    /\ cb_call' = [op |-> "record_market_failure", market |-> market_id]
    /\ fail_run' = [fail_run EXCEPT ![market_id] = @ + 1]
    /\ succ_run' = [succ_run EXCEPT ![market_id] = 0]
    /\ UNCHANGED <<global_validation_breaker, now, varsOB, varsFast, varsLater>>

RecordValidationFailure ==
    /\ TotalEvents < MaxEvents
    /\ global_validation_breaker' =
            record_validation_failure(global_validation_breaker, now, Reason)
    /\ cb_call' = [op |-> "record_validation_failure", market |-> 0]
    /\ UNCHANGED <<breakers, now, fail_run, succ_run, varsOB, varsFast, varsLater>>

AttemptMarketReset(market_id) ==
    /\ breakers' = attempt_market_reset(breakers, market_id, now)
    /\ cb_call' = [op |-> "attempt_market_reset", market |-> market_id]
    /\ succ_run' = IF breakers' # breakers THEN [succ_run EXCEPT ![market_id] = 0]
                   ELSE succ_run
    /\ UNCHANGED <<global_validation_breaker, now, fail_run, varsOB, varsFast, varsLater>>

\* time passes between two calls
Tick ==
    /\ now < MaxTime
    /\ now' = now + 1
    /\ cb_call' = NoCall
    /\ UNCHANGED <<breakers, global_validation_breaker, fail_run, succ_run, varsOB, varsFast, varsLater>>

NextCB ==
    \/ \E market_id \in Markets : RecordMarketSuccess(market_id)
    \/ \E market_id \in Markets : RecordMarketFailure(market_id)
    \/ RecordValidationFailure
    \/ \E market_id \in Markets : AttemptMarketReset(market_id)
    \/ Tick

SpecCB == Init /\ [][NextCB]_vars

----------------------------------------------------------------------------
(* DynamicMarketRegistry operations *)

\* refresh_markets up to its first write: the response is parsed and the new
\* maps are built (a failed request returns before this and changes nothing)
RefreshFetch(universe) ==
    /\ refresh.pc = 0
    /\ reg.last_update < MaxRefresh
    /\ refresh' = [pc |-> 1, new |-> NewMaps(universe)]
    /\ UNCHANGED <<reg, reg_seen, varsCore, varsIngest, varsStream, varsMark, varsRest>>

\* the next of the five writes of refresh_markets, each under its own lock;
\* last_update is counted in refreshes
RefreshWrite ==
    /\ refresh.pc > 0
    /\ reg' = CASE refresh.pc = 1 -> [reg EXCEPT !.markets = refresh.new.markets]
                 [] refresh.pc = 2 -> [reg EXCEPT !.coin_to_id = refresh.new.coin_to_id]
                 [] refresh.pc = 3 -> [reg EXCEPT !.market_info = refresh.new.market_info]
                 [] refresh.pc = 4 -> [reg EXCEPT !.symbol_to_id = refresh.new.symbol_to_id]
                 [] refresh.pc = 5 -> [reg EXCEPT !.last_update = reg.last_update + 1]
    /\ refresh' = IF refresh.pc = 5 THEN [pc |-> 0, new |-> RegistryNew]
                  ELSE [refresh EXCEPT !.pc = refresh.pc + 1]
    /\ UNCHANGED <<reg_seen, varsCore, varsIngest, varsStream, varsMark, varsRest>>

\* a reader makes its lookups one after the other, no write between them
ReaderLookups ==
    /\ reg_seen' = Lookups(reg)
    /\ UNCHANGED <<reg, refresh, varsCore, varsIngest, varsStream, varsMark, varsRest>>

NextReg ==
    \/ \E universe \in Universes : RefreshFetch(universe)
    \/ RefreshWrite
    \/ ReaderLookups

SpecReg == Init /\ [][NextReg]_vars

----------------------------------------------------------------------------
(* Ingest operations; the process reads one feed, the one of its first step *)

\* one line through parse_line and process_single_order; a line that is
\* not JSON of an OrderMessage is [json |-> FALSE]
ParserPath(line) ==
    /\ ing.path \in {"none", "parser"}
    /\ parser.total_messages < MaxLines
    /\ LET bad == line = [json |-> FALSE]
           r == IF bad THEN [book |-> fob, stops |-> stops, ret |-> "Err", update |-> {},
                             valid |-> TRUE]
                ELSE process_single_order(fob, stops, line)
       IN  /\ parser' = [total_messages |-> parser.total_messages + 1,
                         parse_failures |-> parser.parse_failures + (IF bad THEN 1 ELSE 0),
                         validation_failures |->
                             parser.validation_failures + (IF r.valid THEN 0 ELSE 1)]
           /\ fob' = r.book
           /\ stops' = r.stops
           /\ ing' = [path |-> "parser",
                      line |-> IF bad THEN NoLine
                               ELSE [oid |-> line.oid, side |-> line.side,
                                     status |-> line.status, is_trigger |-> line.is_trigger],
                      ret |-> r.ret, update |-> r.update]
    /\ UNCHANGED <<fob_ret, stop_ret, tail, varsOB, varsCB, varsReg, varsStream, varsMark, varsRest>>

\* one line of the JSON file through process_json_updates and run
MarketProcessorJson(update) ==
    /\ ing.path \in {"none", "json"}
    /\ ing.ret # "panic"
    /\ fob.sequence < MaxLines
    /\ LET r == IF update.coin = "BTC"
                THEN process_order(fob, update.status, update.oid, update.limit_px,
                                   update.sz, update.side = "B")
                ELSE [book |-> fob, delta |-> [kind |-> "None"], panic |-> FALSE]
       IN  /\ fob' = r.book
           /\ ing' = [path |-> "json",
                      line |-> [oid |-> update.oid, side |-> update.side,
                                status |-> update.status, is_trigger |-> update.is_trigger],
                      ret |-> IF r.panic THEN "panic" ELSE "Ok",
                      update |-> MarketUpdate(ServedMarket, r.book, r.delta)]
    /\ UNCHANGED <<fob_ret, parser, stops, stop_ret, tail, varsOB, varsCB, varsReg, varsStream,
                   varsMark, varsRest>>

\* one record of the binary file through process_binary_updates and run
MarketProcessorBinary(rec) ==
    /\ ing.path \in {"none", "binary"}
    /\ ing.ret # "panic"
    /\ fob.sequence < MaxLines
    /\ LET status == CASE rec.status = 0 -> "open"
                       [] rec.status \in {1, 2} -> "filled"
                       [] OTHER -> "other"
           r == IF rec.market_id = ServedMarket
                THEN process_order(fob, status, rec.order_id, rec.price, rec.size,
                                   rec.is_buy)
                ELSE [book |-> fob, delta |-> [kind |-> "None"], panic |-> FALSE]
       IN  /\ fob' = r.book
           /\ ing' = [path |-> "binary",
                      line |-> [oid |-> rec.order_id, side |-> IF rec.is_buy THEN "B" ELSE "A",
                                status |-> status, is_trigger |-> FALSE],
                      ret |-> IF r.panic THEN "panic" ELSE "Ok",
                      update |-> MarketUpdate(ServedMarket, r.book, r.delta)]
    /\ UNCHANGED <<fob_ret, parser, stops, stop_ret, tail, varsOB, varsCB, varsReg, varsStream,
                   varsMark, varsRest>>

NextIngest ==
    \/ \E line \in Lines \cup {[json |-> FALSE]} : ParserPath(line)
    \/ \E update \in Lines : MarketProcessorJson(update)
    \/ \E rec \in BinaryRecords : MarketProcessorBinary(rec)

SpecIngest == Init /\ [][NextIngest]_vars

----------------------------------------------------------------------------
(* Fan-out operations *)

\* the producer's update_tx.send: it overwrites the oldest retained message
\* when the channel is full
Publish(market_id) ==
    /\ bus.tail < MaxPublish
    /\ LET all == Append(bus.buf, [market_id |-> market_id, sequence |-> bus.tail + 1])
       IN  bus' = [tail |-> bus.tail + 1,
                   buf |-> IF Len(all) > BusCap THEN Tail(all) ELSE all]
    /\ UNCHANGED <<task, chan, rl, sub, varsCore, varsReg, varsIngest, varsMark, varsRest>>

\* subscribe_orderbook up to the spawn: resubscribe() starts at the tail
Subscribe(market_ids) ==
    /\ task.pc = "none"
    /\ task' = [pc |-> "initial", requested |-> market_ids, todo |-> market_ids,
                next |-> bus.tail, hand |-> {}, got |-> 0, out |-> 0]
    /\ chan' = [queue |-> <<>>, open |-> TRUE]
    /\ UNCHANGED <<bus, rl, sub, varsCore, varsReg, varsIngest, varsMark, varsRest>>

\* the task at rx.recv().await: Lagged ends the loop, an update of a
\* requested market with a book becomes a snapshot to send
StreamTaskRecv ==
    /\ task.pc = "recv"
    /\ LET r == broadcast_recv(bus, task.next)
       IN  /\ r.kind # "Empty"
           /\ task' = IF r.kind = "Lagged" THEN [task EXCEPT !.pc = "exited"]
                      ELSE IF forwards(task.requested, r.update.market_id)
                      THEN [task EXCEPT !.pc = "send", !.next = task.next + 1,
                                        !.hand = {r.update}, !.got = task.got + 1]
                      ELSE [task EXCEPT !.next = task.next + 1]
    /\ UNCHANGED <<bus, chan, rl, sub, varsCore, varsReg, varsIngest, varsMark, varsRest>>

\* the task at tx.send(Ok(snapshot)).await: it waits while the queue is
\* full and the client holds the stream; an initial snapshot's send error
\* is ignored, a later one ends the loop
StreamTaskSend ==
    /\ task.pc \in {"initial", "send"}
    /\ chan.open => Len(chan.queue) < QueueCap
    /\ IF task.pc = "initial"
       THEN IF task.todo = {} THEN task' = [task EXCEPT !.pc = "recv"] /\ chan' = chan
            ELSE \E market_id \in task.todo :
                    /\ task' = [task EXCEPT !.todo = task.todo \ {market_id}]
                    /\ chan' = IF market_id \in orderbooks /\ chan.open
                               THEN [chan EXCEPT !.queue =
                                        Append(chan.queue, [market_id |-> market_id,
                                                            sequence |-> bus.tail])]
                               ELSE chan
       ELSE IF chan.open
            THEN /\ chan' = [chan EXCEPT !.queue =
                                Append(chan.queue, CHOOSE u \in task.hand : TRUE)]
                 /\ task' = [task EXCEPT !.pc = "recv", !.hand = {}, !.out = task.out + 1]
            ELSE /\ task' = [task EXCEPT !.pc = "exited", !.hand = {}]
                 /\ chan' = chan
    /\ UNCHANGED <<bus, rl, sub, varsCore, varsReg, varsIngest, varsMark, varsRest>>

\* the client takes the next message of its stream
ClientRead ==
    /\ chan.open
    /\ chan.queue # <<>>
    /\ chan' = [chan EXCEPT !.queue = Tail(chan.queue)]
    /\ UNCHANGED <<bus, task, rl, sub, varsCore, varsReg, varsIngest, varsMark, varsRest>>

\* the client drops its stream
ClientDisconnect ==
    /\ chan.open
    /\ chan' = [queue |-> <<>>, open |-> FALSE]
    /\ UNCHANGED <<bus, task, rl, sub, varsCore, varsReg, varsIngest, varsMark, varsRest>>

NextStream ==
    \/ \E market_id \in orderbooks : Publish(market_id)
    \/ \E market_ids \in SUBSET (orderbooks \cup {2}) : Subscribe(market_ids)
    \/ StreamTaskRecv
    \/ StreamTaskSend
    \/ ClientRead
    \/ ClientDisconnect

SpecStream == Init /\ [][NextStream]_vars

----------------------------------------------------------------------------
(* Mark-price actions *)

\* add_order / remove_order of the ingest as calculate_hl_mark_price sees
\* them: the first level of one side changes, or the side empties
BookMoves(m, is_buy, top) ==
    /\ top # (IF is_buy THEN mbook[m].best_bid ELSE mbook[m].best_ask)
    /\ mbook' = IF is_buy THEN [mbook EXCEPT ![m].best_bid = top]
                ELSE [mbook EXCEPT ![m].best_ask = top]
    /\ UNCHANGED <<svc, mark_tx, varsCore, varsReg, varsIngest, varsStream, varsRest>>

UpdateOraclePrice(m, oracle_price) ==
    /\ mbook[m].oracle_price # {oracle_price}
    /\ mbook' = [mbook EXCEPT ![m].oracle_price = {oracle_price},
                              ![m].hl_mark_price_calc.last_oracle_price = {oracle_price}]
    /\ UNCHANGED <<svc, mark_tx, varsCore, varsReg, varsIngest, varsStream, varsRest>>

UpdateCexPrices(m, cex_prices) ==
    /\ mbook[m].cex_prices # {cex_prices}
    /\ mbook' = [mbook EXCEPT ![m].cex_prices = {cex_prices}]
    /\ UNCHANGED <<svc, mark_tx, varsCore, varsReg, varsIngest, varsStream, varsRest>>

UpdateLastTrade(m, trade_price) ==
    /\ mbook[m].last_trade_price # {trade_price}
    /\ mbook' = [mbook EXCEPT ![m].last_trade_price = {trade_price},
                              ![m].hl_mark_price_calc.last_trade_price = {trade_price}]
    /\ UNCHANGED <<svc, mark_tx, varsCore, varsReg, varsIngest, varsStream, varsRest>>

\* a call of FastOrderbook::calculate_hl_mark_price on a book with both sides
CalculateHlMarkPrice(m) ==
    /\ mbook[m].best_bid # {} /\ mbook[m].best_ask # {}
    /\ \E outcome \in EmaOutcomes(mbook[m]) :
         mbook' = [mbook EXCEPT ![m] = calculate_hl_mark_price(mbook[m], outcome)]
    /\ UNCHANGED <<svc, mark_tx, varsCore, varsReg, varsIngest, varsStream, varsRest>>

\* ticker.tick() fires: the version goes up and the walk over the books starts
TickBegin ==
    /\ svc.pc = "sleep"
    /\ svc.calculation_version < MaxTicks
    /\ svc' = [svc EXCEPT !.pc = "loop", !.calculation_version = @ + 1, !.todo = orderbooks]
    /\ UNCHANGED <<mbook, mark_tx, varsCore, varsReg, varsIngest, varsStream, varsRest>>

\* the next book of the walk and its get_snapshot(1): a book with an empty
\* side is passed over. The oracle cache holds no price of the symbol, so
\* the walk sets none.
TickSnapshot(m) ==
    /\ svc.pc = "loop"
    /\ m \in svc.todo
    /\ svc' = [svc EXCEPT !.todo = @ \ {m}, !.market = m,
                          !.pc = IF mbook[m].best_bid = {} \/ mbook[m].best_ask = {}
                                 THEN "loop" ELSE "calculate"]
    /\ UNCHANGED <<mbook, mark_tx, varsCore, varsReg, varsIngest, varsStream, varsRest>>

\* calculate_hl_mark_price, its return value dropped, then get_hl_mark_price:
\* the stored result, if any, goes to the cache and to the channel
TickCalculate(m) ==
    /\ svc.pc = "calculate" /\ svc.market = m
    /\ \E outcome \in (IF mbook[m].best_bid = {} \/ mbook[m].best_ask = {}
                       THEN {<<0, 0>>} ELSE EmaOutcomes(mbook[m])) :
         LET b == calculate_hl_mark_price(mbook[m], outcome)
         IN /\ mbook' = [mbook EXCEPT ![m] = b]
            /\ IF b.last_hl_mark_price = {}
               THEN /\ svc' = [svc EXCEPT !.pc = "loop"]
                    /\ UNCHANGED mark_tx
               ELSE LET hl_mark_price == CHOOSE r \in b.last_hl_mark_price : TRUE
                    IN /\ svc' = [svc EXCEPT !.pc = "loop",
                                    !.cache = MapInsert(@, m,
                                        [hl_mark_price |-> hl_mark_price.mark_price,
                                         calculation_version |-> svc.calculation_version])]
                       /\ mark_tx' = Append(mark_tx,
                              MarkPriceUpdateEvent(m, hl_mark_price, svc.calculation_version,
                                                   svc.calculation_version))
    /\ UNCHANGED <<varsCore, varsReg, varsIngest, varsStream, varsRest>>

\* the walk is over: the task waits for the next tick
TickEnd ==
    /\ svc.pc = "loop"
    /\ svc.todo = {}
    /\ svc' = [svc EXCEPT !.pc = "sleep"]
    /\ UNCHANGED <<mbook, mark_tx, varsCore, varsReg, varsIngest, varsStream, varsRest>>

\* the service and the ingest that changes the books under it
NextMark ==
    \/ \E m \in orderbooks, is_buy \in BOOLEAN :
         \E top \in {{}, IF is_buy THEN {2} ELSE {4}} : BookMoves(m, is_buy, top)
    \/ TickBegin
    \/ \E m \in orderbooks : TickSnapshot(m)
    \/ \E m \in orderbooks : TickCalculate(m)
    \/ TickEnd

SpecMark == Init /\ [][NextMark]_vars

\* the calculator on the book of one market under every input
NextCalc ==
    \/ \E is_buy \in BOOLEAN :
         \E top \in IF is_buy THEN {{}, {2}} ELSE {{}, {4}, {8}} :
           BookMoves(ServedMarket, is_buy, top)
    \/ \E oracle_price \in {2, 8} : UpdateOraclePrice(ServedMarket, oracle_price)
    \/ \E cex_prices \in CexInputs : UpdateCexPrices(ServedMarket, cex_prices)
    \/ \E trade_price \in {6} : UpdateLastTrade(ServedMarket, trade_price)
    \/ CalculateHlMarkPrice(ServedMarket)

SpecCalc == Init /\ [][NextCalc]_vars

----------------------------------------------------------------------------
(* Stop-order operations *)

\* the <<market, user, position>> of every entry of the per-market/per-user index
IndexEntries(s) ==
    UNION {UNION {{<<m, u, i>> : i \in 1..Len(s.orders_by_market[m][u])} :
                      u \in DOMAIN s.orders_by_market[m]} :
               m \in DOMAIN s.orders_by_market}

AddStopOrder(market_id, id, user) ==
    /\ Cardinality(IndexEntries(stops)) < MaxStopOps
    /\ stops' = add_stop_order(stops, market_id,
                               StopOrder(id, user, IF market_id = 0 THEN "BTC" ELSE "ETH",
                                         "B", 10000, 1))
    /\ stop_ret' = NoRanking
    /\ UNCHANGED <<parser, ing, tail, varsCore, varsReg, varsStream, varsMark, varsRest>>

RemoveStopOrder(order_id) ==
    /\ order_id \in DOMAIN stops.all_orders
    /\ \E first \in FirstMarkets(stops, stops.all_orders[order_id].user) :
           stops' = remove_stop_order(stops, order_id, first)
    /\ stop_ret' = NoRanking
    /\ UNCHANGED <<parser, ing, tail, varsCore, varsReg, varsStream, varsMark, varsRest>>

NextStops ==
    \/ \E market_id \in {0, 1}, id \in {1, 2}, user \in {"a", "b"} :
           AddStopOrder(market_id, id, user)
    \/ \E order_id \in {1, 2} : RemoveStopOrder(order_id)

SpecStops == Init /\ [][NextStops]_vars

\* the stop orders a ranking is asked for: one user's orders on BTC, and one
\* on a coin that has no market id
RankedInputs ==
    {StopOrder(1, "a", "BTC", side, price, size) :
         side \in {"B", "A"}, price \in {9960, 10000, 10200}, size \in {1, 3}}
    \cup {StopOrder(2, "a", "DOGE", "B", 10000, 1)}

\* get_stop_orders ranks with the book of each order's market, and as mid
\* price the mean of the best bid and the best ask, when the book has both
RankStopOrders(orders, book, weights) ==
    /\ stop_ret' = [orders |-> orders, book |-> book, weights |-> weights,
                    ranked |-> rank_stop_orders(orders,
                                                [m \in {0} |-> (book[1][1][1] + book[2][1][1]) \div 2],
                                                [m \in {0} |-> book],
                                                weights[1], weights[2])]
    /\ UNCHANGED <<parser, ing, stops, tail, varsCore, varsReg, varsStream, varsMark, varsRest>>

NextRank ==
    \E orders \in {<<>>} \cup {<<a>> : a \in RankedInputs}
                  \cup {<<a, b>> : a \in RankedInputs, b \in RankedInputs},
       book \in {<< <<<<9990, 1>>>>, <<<<10010, 1>>>> >>,
                 << <<<<9990, 2>>, <<9900, 2>>>>, <<<<10010, 1>>, <<10100, 4>>>> >>},
       weights \in {<<1, 1>>, <<3, 2>>} :
        RankStopOrders(orders, book, weights)

SpecRank == Init /\ [][NextRank]_vars

----------------------------------------------------------------------------
(* Binary-tail operations *)

\* the writer of the file appends n bytes; rec is the record they complete
AppendBytes(n, rec) ==
    /\ FileLen(tail) + n <= ORDER_SIZE * MaxRecords
    /\ tail' = IF tail.partial + n >= ORDER_SIZE
               THEN [tail EXCEPT !.file = Append(@, rec),
                                 !.partial = tail.partial + n - ORDER_SIZE]
               ELSE [tail EXCEPT !.partial = tail.partial + n]
    /\ UNCHANGED <<parser, ing, stops, stop_ret, varsCore, varsReg, varsStream, varsMark, varsRest>>

\* a pass of process_binary_mmap; the time limit ends its loop after taken
\* records, or the end of the data does
ProcessBinaryMmap(taken) ==
    /\ FileLen(tail) > tail.last_position
    /\ taken <= complete_records(FileLen(tail) - tail.last_position)
    /\ tail' = [tail EXCEPT !.last_position = @ + taken * ORDER_SIZE]
    /\ fob' = binary_pass(fob, tail, tail.last_position, taken)
    /\ UNCHANGED <<fob_ret, parser, ing, stops, stop_ret, varsOB, varsCB, varsReg, varsStream,
                   varsMark, varsRest>>

\* a pass of process_binary_updates that falls back to read_exact: the file
\* could not be opened for the map, or has nothing new
ProcessBinaryUpdates(taken) ==
    /\ taken <= complete_records(FileLen(tail) - tail.last_position)
    /\ tail' = [tail EXCEPT !.last_position = @ + taken * ORDER_SIZE]
    /\ fob' = binary_pass(fob, tail, tail.last_position, taken)
    /\ UNCHANGED <<fob_ret, parser, ing, stops, stop_ret, varsOB, varsCB, varsReg, varsStream,
                   varsMark, varsRest>>

\* a pass of FileMonitor::process_binary_file: read_exact to the end of the
\* file, or up to the record whose send fails when failed_send is TRUE
ProcessBinaryFile(taken, failed_send) ==
    /\ taken <= complete_records(FileLen(tail) - tail.file_position)
    /\ IF failed_send
       THEN /\ taken >= 1
            /\ \E r \in record_at(tail, tail.file_position + (taken - 1) * ORDER_SIZE) :
                   r.market_id = ServedMarket
       ELSE taken = complete_records(FileLen(tail) - tail.file_position)
    /\ tail' = [tail EXCEPT !.file_position = @ + taken * ORDER_SIZE,
                            !.sent = @ + monitored(tail, tail.file_position, taken)
                                       - (IF failed_send THEN 1 ELSE 0)]
    /\ UNCHANGED <<parser, ing, stops, stop_ret, varsCore, varsReg, varsStream, varsMark, varsRest>>

NextTail ==
    \/ \E n \in {19, ORDER_SIZE},
          rec \in {[order_id |-> 1, market_id |-> m, price |-> 1, size |-> 6, is_buy |-> TRUE,
                    status |-> s] : m \in RequestMarkets, s \in {0, 1}} :
           AppendBytes(n, rec)
    \/ \E taken \in 0..MaxRecords : ProcessBinaryMmap(taken)
    \/ \E taken \in 0..MaxRecords : ProcessBinaryUpdates(taken)
    \/ \E taken \in 0..MaxRecords, failed_send \in BOOLEAN : ProcessBinaryFile(taken, failed_send)

SpecTail == Init /\ [][NextTail]_vars

----------------------------------------------------------------------------
(* RateLimitInterceptor operations *)

\* the log keeps, of each call, the client, the second, the window the
\* call was counted in and whether it was admitted
CheckRateLimit(client_id) ==
    /\ Len(rl.log) < MaxCalls
    /\ LET r == check_rate_limit(rl.limits, client_id, rl.clock)
       IN  rl' = [rl EXCEPT !.limits = r.limits,
                            !.log = Append(@, [client |-> client_id, at |-> rl.clock,
                                               window_start |-> r.limits[client_id].window_start,
                                               ok |-> r.ok])]
    /\ UNCHANGED <<bus, task, chan, sub, varsCore, varsReg, varsIngest, varsMark, varsRest>>

\* seconds pass between two calls
RateClockAdvances(seconds) ==
    /\ rl.clock + seconds <= MaxClock
    /\ rl' = [rl EXCEPT !.clock = @ + seconds]
    /\ UNCHANGED <<bus, task, chan, sub, varsCore, varsReg, varsIngest, varsMark, varsRest>>

NextRate ==
    \/ \E client_id \in {"client1", "client2"} : CheckRateLimit(client_id)
    \/ \E seconds \in {29, 31} : RateClockAdvances(seconds)

SpecRate == Init /\ [][NextRate]_vars

----------------------------------------------------------------------------
(* A subscriber's snapshots beside the ingest task (grpc_server.rs
   subscribe_orderbook, FastOrderbook::add_order) *)

\* FastOrderbook::add_order up to its level lock: the two counters move
AddOrderCounts(order, is_buy) ==
    /\ sub.adding = {}
    /\ fob.sequence < MaxFastSeq
    /\ fob' = [fob EXCEPT !.sequence = @ + 1, !.total_orders = @ + 1]
    /\ sub' = [sub EXCEPT !.adding = {[order |-> order, is_buy |-> is_buy]}]
    /\ UNCHANGED <<fob_ret, bus, task, chan, rl, varsOB, varsCB, varsReg, varsIngest, varsMark, varsRest>>

\* the rest of add_order under the lock of its side, and the MarketUpdate
\* the ingest task then sends with the sequence it loads; books is the
\* history of the levels at each sequence
AddOrderInserts ==
    /\ sub.adding # {}
    /\ LET a == CHOOSE x \in sub.adding : TRUE
           f == [fob_add_order(fob, a.order, a.is_buy)
                     EXCEPT !.sequence = fob.sequence, !.total_orders = fob.total_orders]
       IN  /\ fob' = f
           /\ sub' = [sub EXCEPT !.adding = {},
                                 !.updates = Append(@, f.sequence),
                                 !.books = Append(@, fob_get_snapshot(f, 50))]
    /\ UNCHANGED <<fob_ret, bus, task, chan, rl, varsOB, varsCB, varsReg, varsIngest, varsMark, varsRest>>

\* subscribe_orderbook: resubscribe() and the spawn of the stream task
SnapshotSubscribe ==
    /\ sub.pc = "none"
    /\ sub' = [sub EXCEPT !.pc = "initial", !.next = Len(sub.updates)]
    /\ UNCHANGED <<bus, task, chan, rl, varsCore, varsReg, varsIngest, varsMark, varsRest>>

\* the task's get_snapshot(50) for the initial snapshot
SnapshotInitialRead ==
    /\ sub.pc = "initial"
    /\ sub' = [sub EXCEPT !.pc = "loaded", !.read = fob_get_snapshot(fob, 50)]
    /\ UNCHANGED <<bus, task, chan, rl, varsCore, varsReg, varsIngest, varsMark, varsRest>>

\* the task's orderbook.sequence.load and the send of the initial snapshot
SnapshotInitialSend ==
    /\ sub.pc = "loaded"
    /\ sub' = [sub EXCEPT !.pc = "recv",
                          !.sent = Append(@, [sequence |-> fob.sequence, book |-> sub.read])]
    /\ UNCHANGED <<bus, task, chan, rl, varsCore, varsReg, varsIngest, varsMark, varsRest>>

\* the task takes its next update and sends the snapshot it builds for
\* it: the update's sequence, the levels of get_snapshot(50)
SnapshotForward ==
    /\ sub.pc = "recv"
    /\ sub.next < Len(sub.updates)
    /\ sub' = [sub EXCEPT !.next = @ + 1,
                          !.sent = Append(@, [sequence |-> sub.updates[sub.next + 1],
                                              book |-> fob_get_snapshot(fob, 50)])]
    /\ UNCHANGED <<bus, task, chan, rl, varsCore, varsReg, varsIngest, varsMark, varsRest>>

NextSnap ==
    \/ \E id \in OrderIds, price \in {1, 2}, is_buy \in BOOLEAN :
           AddOrderCounts(FastOrder(id, price, 6), is_buy)
    \/ AddOrderInserts
    \/ SnapshotSubscribe
    \/ SnapshotInitialRead
    \/ SnapshotInitialSend
    \/ SnapshotForward

SpecSnap == Init /\ [][NextSnap]_vars

----------------------------------------------------------------------------
(* Ingest-loop operations *)

\* lines.next_line() gives a line and the loop body runs on it
ProcessOrdersLine(line) ==
    /\ loop.lines < MaxLoopLines
    /\ loop' = process_orders_line(loop, line)
    /\ UNCHANGED <<locks, jtail, stat, varsEarlier>>

\* a second passes while the loop waits for its next line
LoopClockAdvances ==
    /\ loop.clock < MaxLoopClock
    /\ loop' = [loop EXCEPT !.clock = @ + 1]
    /\ UNCHANGED <<locks, jtail, stat, varsEarlier>>

NextLoop ==
    \/ \E line \in LoopLines : ProcessOrdersLine(line)
    \/ LoopClockAdvances

SpecLoop == Init /\ [][NextLoop]_vars

----------------------------------------------------------------------------
(* Concurrent calls on the StopOrderManager: a write() blocks while another
   thread holds the lock *)

\* a thread enters add_stop_order
AddStopOrderCall(t, market_id, id, user) ==
    /\ locks.pc[t] = "idle"
    /\ locks.calls < MaxLockCalls
    /\ locks' = [locks EXCEPT !.pc[t] = "add_market",
                              !.arg[t] = [market_id |-> market_id,
                                          order |-> StopOrder(id, user,
                                                              IF market_id = 0 THEN "BTC" ELSE "ETH",
                                                              "B", 10000, 1)],
                              !.calls = @ + 1]
    /\ UNCHANGED <<stops, loop, jtail, stat, parser, ing, stop_ret, tail, varsCore, varsReg, varsStream, varsMark>>

\* add_stop_order: orders_by_market.write()
AddLocksMarket(t) ==
    /\ locks.pc[t] = "add_market"
    /\ locks.holder["orders_by_market"] = 0
    /\ locks' = [locks EXCEPT !.pc[t] = "add_all", !.holder["orders_by_market"] = t]
    /\ UNCHANGED <<stops, loop, jtail, stat, parser, ing, stop_ret, tail, varsCore, varsReg, varsStream, varsMark>>

\* add_stop_order: all_orders.write()
AddLocksAll(t) ==
    /\ locks.pc[t] = "add_all"
    /\ locks.holder["all_orders"] = 0
    /\ locks' = [locks EXCEPT !.pc[t] = "add_body", !.holder["all_orders"] = t]
    /\ UNCHANGED <<stops, loop, jtail, stat, parser, ing, stop_ret, tail, varsCore, varsReg, varsStream, varsMark>>

\* add_stop_order: the two inserts, and both guards dropped at the return
AddStopOrderBody(t) ==
    /\ locks.pc[t] = "add_body"
    /\ stops' = add_stop_order(stops, locks.arg[t].market_id, locks.arg[t].order)
    /\ locks' = [locks EXCEPT !.pc[t] = "idle",
                              !.holder = [l \in DOMAIN @ |-> 0]]
    /\ UNCHANGED <<loop, jtail, stat, parser, ing, stop_ret, tail, varsCore, varsReg, varsStream, varsMark>>

\* a thread enters remove_stop_order
RemoveStopOrderCall(t, order_id) ==
    /\ locks.pc[t] = "idle"
    /\ locks.calls < MaxLockCalls
    /\ locks' = [locks EXCEPT !.pc[t] = "remove_all",
                              !.arg[t] = [market_id |-> 0,
                                          order |-> StopOrder(order_id, "", "", "", 0, 0)],
                              !.calls = @ + 1]
    /\ UNCHANGED <<stops, loop, jtail, stat, parser, ing, stop_ret, tail, varsCore, varsReg, varsStream, varsMark>>

\* remove_stop_order: all_orders.write() and all_orders.remove(&order_id);
\* the call returns when the id is not there
RemoveLocksAll(t) ==
    /\ locks.pc[t] = "remove_all"
    /\ locks.holder["all_orders"] = 0
    /\ LET order_id == locks.arg[t].order.id
       IN  IF order_id \in DOMAIN stops.all_orders
           THEN /\ locks' = [locks EXCEPT !.pc[t] = "remove_market",
                                          !.holder["all_orders"] = t,
                                          !.arg[t].order = stops.all_orders[order_id]]
                /\ stops' = [stops EXCEPT !.all_orders = MapRemove(@, order_id)]
           ELSE /\ locks' = [locks EXCEPT !.pc[t] = "idle"]
                /\ stops' = stops
    /\ UNCHANGED <<loop, jtail, stat, parser, ing, stop_ret, tail, varsCore, varsReg, varsStream, varsMark>>

\* remove_stop_order: orders_by_market.write(), the loop over the markets,
\* and both guards dropped at the return
RemoveLocksMarket(t) ==
    /\ locks.pc[t] = "remove_market"
    /\ locks.holder["orders_by_market"] = 0
    /\ LET order == locks.arg[t].order
           held == [stops EXCEPT !.all_orders = MapInsert(@, order.id, order)]
       IN  \E first \in FirstMarkets(stops, order.user) :
               stops' = [remove_stop_order(held, order.id, first)
                             EXCEPT !.all_orders = stops.all_orders]
    /\ locks' = [locks EXCEPT !.pc[t] = "idle",
                              !.holder = [l \in DOMAIN @ |-> 0]]
    /\ UNCHANGED <<loop, jtail, stat, parser, ing, stop_ret, tail, varsCore, varsReg, varsStream, varsMark>>

NextLocks ==
    \/ \E t \in Threads, market_id \in {0, 1}, id \in {1, 2}, user \in {"a", "b"} :
           AddStopOrderCall(t, market_id, id, user)
    \/ \E t \in Threads : AddLocksMarket(t)
    \/ \E t \in Threads : AddLocksAll(t)
    \/ \E t \in Threads : AddStopOrderBody(t)
    \/ \E t \in Threads, order_id \in {1, 2} : RemoveStopOrderCall(t, order_id)
    \/ \E t \in Threads : RemoveLocksAll(t)
    \/ \E t \in Threads : RemoveLocksMarket(t)

SpecLocks == Init /\ [][NextLocks]_vars

----------------------------------------------------------------------------
(* Tailing a JSON-lines file *)

\* the writer of the file appends the next bytes of its lines
AppendJson(n) ==
    /\ jtail.len + n <= MaxJsonLines * JsonRecord
    /\ jtail' = [jtail EXCEPT !.len = @ + n]
    /\ UNCHANGED <<loop, locks, stat, varsEarlier>>

\* FileMonitor::process_file on the file: every line from the stored
\* offset, and the offset stored at the end
ProcessFile ==
    /\ LET r == json_pass(jtail.len, jtail.file_positions, MaxJsonLines * JsonRecord)
       IN  jtail' = [jtail EXCEPT !.file_positions = r.position,
                                  !.sent = @ \o r.taken]
    /\ UNCHANGED <<loop, locks, stat, varsEarlier>>

\* MarketProcessor::process_json_updates: the lines from last_position
\* until the 5 ms of the pass are over, after n items
ProcessJsonUpdates(n) ==
    /\ LET r == json_pass(jtail.len, jtail.last_position, n)
       IN  jtail' = [jtail EXCEPT !.last_position = r.position,
                                  !.deltas = @ \o r.taken]
    /\ UNCHANGED <<loop, locks, stat, varsEarlier>>

NextJson ==
    \/ \E n \in 1..JsonRecord : AppendJson(n)
    \/ ProcessFile
    \/ \E n \in 0..MaxJsonLines : ProcessJsonUpdates(n)

SpecJson == Init /\ [][NextJson]_vars

----------------------------------------------------------------------------
(* OrderParser::stats in the monitor task beside parse_line in the ingest
   task; every load and every fetch_add is a step *)

\* parse_line: total_messages.fetch_add(1)
ParseLineCounts ==
    /\ stat.writer = "idle"
    /\ parser.total_messages < MaxStatLines
    /\ parser' = [parser EXCEPT !.total_messages = @ + 1]
    /\ stat' = [stat EXCEPT !.writer = "counted"]
    /\ UNCHANGED <<loop, locks, jtail, ing, stops, stop_ret, tail, varsCore, varsReg, varsStream,
                   varsMark>>

\* parse_line: the line parses and validates, or one of the two failure
\* counters is bumped
ParseLineEnds(outcome) ==
    /\ stat.writer = "counted"
    /\ parser' = [parser EXCEPT
                      !.parse_failures = @ + (IF outcome = "parse" THEN 1 ELSE 0),
                      !.validation_failures = @ + (IF outcome = "validation" THEN 1 ELSE 0)]
    /\ stat' = [stat EXCEPT !.writer = "idle"]
    /\ UNCHANGED <<loop, locks, jtail, ing, stops, stop_ret, tail, varsCore, varsReg, varsStream,
                   varsMark>>

\* monitor_stats calls stats
StatsCall ==
    /\ stat.reader = "idle"
    /\ stat.calls < MaxStatsCalls
    /\ stat' = [stat EXCEPT !.reader = "total_messages", !.calls = @ + 1]
    /\ UNCHANGED <<parser, loop, locks, jtail, ing, stops, stop_ret, tail, varsCore, varsReg, varsStream,
                   varsMark>>

\* stats: the loads of the three fields of ParserStats, in their order
StatsLoadsField ==
    /\ stat.reader \in {"total_messages", "parse_failures", "validation_failures"}
    /\ stat' = [stat EXCEPT
                    !.fields[stat.reader] = parser[stat.reader],
                    !.reader = CASE stat.reader = "total_messages" -> "parse_failures"
                                 [] stat.reader = "parse_failures" -> "validation_failures"
                                 [] OTHER -> "rate_total"]
    /\ UNCHANGED <<parser, loop, locks, jtail, ing, stops, stop_ret, tail, varsCore, varsReg, varsStream,
                   varsMark>>

\* calculate_success_rate: the load of total_messages; 100.0 when it is 0
RateLoadsTotal ==
    /\ stat.reader = "rate_total"
    /\ LET total == parser.total_messages
       IN  stat' = IF total = 0
                   THEN [stat EXCEPT !.reader = "idle", !.total = 0,
                                     !.stats = {[kind |-> "Ok", fields |-> stat.fields,
                                                 success_rate |-> 100]}]
                   ELSE [stat EXCEPT !.reader = "rate_parse", !.total = total]
    /\ UNCHANGED <<parser, loop, locks, jtail, ing, stops, stop_ret, tail, varsCore, varsReg, varsStream,
                   varsMark>>

\* calculate_success_rate: the load of parse_failures
RateLoadsParseFailures ==
    /\ stat.reader = "rate_parse"
    /\ stat' = [stat EXCEPT !.reader = "rate_validation",
                            !.failures = parser.parse_failures]
    /\ UNCHANGED <<parser, loop, locks, jtail, ing, stops, stop_ret, tail, varsCore, varsReg, varsStream,
                   varsMark>>

\* calculate_success_rate: the load of validation_failures, the sum, the
\* subtraction and the rate; stats returns
RateLoadsValidationFailures ==
    /\ stat.reader = "rate_validation"
    /\ LET failures == stat.failures + parser.validation_failures
       IN  \E difference \in counter_sub(stat.total, failures) :
               stat' = [stat EXCEPT
                           !.reader = "idle",
                           !.failures = failures,
                           !.stats = IF difference.panic
                                     THEN {[kind |-> "panic", fields |-> stat.fields,
                                            success_rate |-> 0]}
                                     ELSE {[kind |-> "Ok", fields |-> stat.fields,
                                            success_rate |->
                                                success_rate(stat.total, difference.value)]}]
    /\ UNCHANGED <<parser, loop, locks, jtail, ing, stops, stop_ret, tail, varsCore, varsReg, varsStream,
                   varsMark>>

NextStats ==
    \/ ParseLineCounts
    \/ \E outcome \in {"ok", "parse", "validation"} : ParseLineEnds(outcome)
    \/ StatsCall
    \/ StatsLoadsField
    \/ RateLoadsTotal
    \/ RateLoadsParseFailures
    \/ RateLoadsValidationFailures

SpecStats == Init /\ [][NextStats]_vars

Next == NextOB \/ NextLevel \/ NextFast \/ NextCB \/ NextReg \/ NextIngest \/ NextStream
           \/ NextMark \/ NextCalc \/ NextStops \/ NextRank \/ NextTail \/ NextRate
           \/ NextSnap \/ NextLoop \/ NextLocks \/ NextJson \/ NextStats

Spec == Init /\ [][Next]_vars

----------------------------------------------------------------------------
(* Claims on the Orderbook *)

\* the places <<side, key, position>> where an order with this id rests
OBPlaces(b, id) ==
    {<<side, key, i>> \in UNION {{<<sd, k, j>> : j \in 1..Len(OBSide(b, sd)[k])} :
                                     <<sd, k>> \in UNION {{<<x, y>> : y \in DOMAIN OBSide(b, x)} : x \in Sides}} :
        OBSide(b, side)[key][i].id = id}

\* the number of orders resting in the book, over all levels of both sides
RECURSIVE SumLens(_, _)
SumLens(book, keys) ==
    IF keys = {} THEN 0
    ELSE LET k == CHOOSE x \in keys : TRUE
         IN  Len(book[k]) + SumLens(book, keys \ {k})

OBResting(b) == SumLens(b.bids, DOMAIN b.bids) + SumLens(b.asks, DOMAIN b.asks)

\* C1: every order id held in the location index has exactly one order in
\* the book, and that order rests on the recorded side at the recorded price.
C1_IndexMatchesBook ==
    \A id \in DOMAIN ob.orders :
        /\ Cardinality(OBPlaces(ob, id)) = 1
        /\ \A pl \in OBPlaces(ob, id) :
              /\ pl[1] = ob.orders[id].side
              /\ pl[2] = PriceKey(ob.orders[id].side, ob.orders[id].price)

\* C2: no operation on a book lowers its sequence, and clear advances it
\* (Orderbook and FastOrderbook; the clear of a book that was never used is
\* left out of the Orderbook's part).
C2_SequenceNeverDecreases ==
    [][/\ ob'.sequence >= ob.sequence
       /\ fob'.sequence >= fob.sequence
       /\ (OBClear /\ ob # OBNew) => ob'.sequence > ob.sequence
       /\ FastClear => fob'.sequence > fob.sequence]_vars

\* C3: the orders resting in the Orderbook never number more than
\* max_total_orders, and an add_order arriving at the limit changes nothing.
C3_TotalWithinLimit ==
    /\ OBResting(ob) <= max_total_orders
    /\ \A order \in OBOrders :
          OBResting(ob) >= max_total_orders => ob_add_order(ob, order) = ob

\* the orders of the bid level at price 1
BidLevel(b) == IF -1 \in DOMAIN b.bids THEN b.bids[-1] ELSE <<>>

\* C26: an add_order that finds its level full evicts the order of the level
\* that was inserted earliest, whatever adds and cancels the level has seen
C26_EvictsEarliest ==
    [][\A id \in 1..4 :
          (LevelAdd(id) /\ Len(BidLevel(ob)) = 3) =>
              \A i \in 1..3 :
                  (\A j \in 1..Len(BidLevel(ob')) : BidLevel(ob')[j] # BidLevel(ob)[i])
                      => \A k \in 1..3 :
                            BidLevel(ob)[i].timestamp <= BidLevel(ob)[k].timestamp]_vars

\* C27: a side never has more than max_levels_per_side levels, and an add at
\* a new price on a full side leaves the side without its worst-priced level
\* (the lowest bid, the highest ask) and with the new one, the other levels
\* as they were
C27_WorstLevelEvicted ==
    /\ Cardinality(DOMAIN ob.bids) <= max_levels_per_side
    /\ Cardinality(DOMAIN ob.asks) <= max_levels_per_side
    /\ \A order \in OBOrders :
          LET side == OBSide(ob, order.side)
              after == OBSide(ob_add_order(ob, order), order.side)
              worst == IF order.side = "Buy" THEN -SetMin({-k : k \in DOMAIN side})
                       ELSE SetMax(DOMAIN side)
          IN (/\ Cardinality(DOMAIN side) = max_levels_per_side
              /\ PriceKey(order.side, order.price) \notin DOMAIN side
              /\ Cardinality(DOMAIN ob.orders) < max_total_orders)
             => /\ DOMAIN after = (DOMAIN side \ {worst})
                                    \cup {PriceKey(order.side, order.price)}
                /\ \A k \in DOMAIN side \ {worst} : after[k] = side[k]
                /\ after[PriceKey(order.side, order.price)] = <<order>>

\* a full bid side took an add at price 3 and lost its lowest bid, at price 1,
\* of which the id index still holds an order
C27_Witness ==
    /\ DOMAIN ob.bids = {-3, -2}
    /\ \E id \in DOMAIN ob.orders : ob.orders[id].side = "Buy" /\ ob.orders[id].price = 1

\* C33: cancel_order of an id that the index holds and that rests once in
\* the book removes that order and no other: every other id rests as often
\* as before, and the cancelled id rests nowhere
C33_CancelRemovesExactlyThat ==
    [][\A order_id \in OrderIds :
           (/\ OBCancelOrder(order_id)
            /\ order_id \in DOMAIN ob.orders
            /\ Cardinality(OBPlaces(ob, order_id)) = 1)
               => \A id \in OrderIds :
                      Cardinality(OBPlaces(ob', id))
                          = IF id = order_id THEN 0 ELSE Cardinality(OBPlaces(ob, id))]_vars

----------------------------------------------------------------------------
(* Claims on the FastOrderbook *)

FastAllLevels(f) ==
    {f.bid_levels[i] : i \in 1..Len(f.bid_levels)}
        \cup {f.ask_levels[i] : i \in 1..Len(f.ask_levels)}

\* C4: every retained level's total_size equals the sum of the sizes of the
\* orders it holds.
C4_TotalSizeIsSum ==
    \A level \in FastAllLevels(fob) : level.total_size = FSumSizes(level.orders)

\* C5: bid levels are strictly descending by price, ask levels strictly
\* ascending, and no level is empty.
C5_SidesSorted ==
    /\ \A i \in 1..(Len(fob.bid_levels) - 1) :
          fob.bid_levels[i].price > fob.bid_levels[i + 1].price
    /\ \A i \in 1..(Len(fob.ask_levels) - 1) :
          fob.ask_levels[i].price < fob.ask_levels[i + 1].price
    /\ \A level \in FastAllLevels(fob) : level.orders # <<>>

\* C5 witness: three bid levels, one inserted per add_order, in any order
\* of arrival.
C5_Witness ==
    /\ Len(fob.bid_levels) = 3
    /\ fob.bid_count = 3
    /\ fob_ret.kind = "AddBid"

\* C6: add_order(o, side) followed by remove_order(o.id, o.price, side)
\* restores the sides, the levels and the counters, with the sequence 2 higher.
C6_AddRemoveRestores ==
    \A order \in FastOrders, is_buy \in BOOLEAN :
        LET after == fob_remove_order(fob_add_order(fob, order, is_buy),
                                      order.id, order.price, is_buy)
        IN  /\ after.bid_levels = fob.bid_levels
            /\ after.ask_levels = fob.ask_levels
            /\ after.bid_count = fob.bid_count
            /\ after.ask_count = fob.ask_count
            /\ after.total_orders = fob.total_orders
            /\ after.sequence = fob.sequence + 2

\* C7: a snapshot requested with depth 0 holds every level of both sides
\* (GetOrderbook over the FastOrderbook, and Orderbook::get_snapshot).
C7_DepthZeroIsFull ==
    /\ (fob_ret.kind = "Snapshot" /\ fob_ret.depth = 0) =>
          /\ Len(fob_ret.bids) = Len(fob.bid_levels)
          /\ Len(fob_ret.asks) = Len(fob.ask_levels)
    /\ (ob_ret.kind = "Snapshot" /\ ob_ret.depth = 0) =>
          /\ Len(ob_ret.bids) = Cardinality(DOMAIN ob.bids)
          /\ Len(ob_ret.asks) = Cardinality(DOMAIN ob.asks)

----------------------------------------------------------------------------
(* Claims on the PerMarketCircuitBreaker *)

MarketOps == {"record_market_success", "record_market_failure", "attempt_market_reset"}

\* C8: a call for one market changes no other market's breaker and not the
\* validation breaker; a validation failure changes no market breaker; the
\* failure_threshold-th failure of a market with no success opens it, and a
\* market with no failure is not Open and takes a success as Closed.
C8_Isolation ==
    [][/\ \A m \in Markets :
            (cb_call'.op \in MarketOps /\ cb_call'.market # m) =>
                /\ (m \in DOMAIN breakers') = (m \in DOMAIN breakers)
                /\ m \in DOMAIN breakers => breakers'[m] = breakers[m]
       /\ cb_call'.op \in MarketOps =>
            global_validation_breaker' = global_validation_breaker
       /\ cb_call'.op = "record_validation_failure" => breakers' = breakers
       /\ \A m \in Markets :
            /\ BreakerEntry(breakers', m).total_failures = 0 =>
                  ~is_market_open(breakers', m)
            /\ (/\ cb_call' = [op |-> "record_market_failure", market |-> m]
                /\ BreakerEntry(breakers', m).total_failures = failure_threshold
                /\ BreakerEntry(breakers', m).total_successes = 0) =>
                  is_market_open(breakers', m)
            /\ (/\ cb_call' = [op |-> "record_market_success", market |-> m]
                /\ BreakerEntry(breakers, m).total_failures = 0) =>
                  /\ breakers'[m].state = Closed(0)
                  /\ breakers'[m].total_successes =
                        BreakerEntry(breakers, m).total_successes + 1]_vars

\* C8 witness: market 0 opened by its failures, then a success recorded for
\* market 1 while the validation breaker saw nothing.
C8_Witness ==
    /\ is_market_open(breakers, 0)
    /\ breakers[0].total_failures = failure_threshold
    /\ cb_call = [op |-> "record_market_success", market |-> 1]
    /\ breakers[1].state = Closed(0)
    /\ global_validation_breaker = MarketCircuitBreakerNew

\* C9: while Closed the failure count is the number of failures recorded
\* since the last success and stays below failure_threshold; a Closed
\* breaker opens exactly on the failure that makes that number
\* failure_threshold; a success while Closed sets the count to 0.
C9_ClosedToOpen ==
    [][\A m \in Markets :
        LET before == BreakerEntry(breakers, m)
            after == BreakerEntry(breakers', m)
        IN  /\ after.state.kind = "Closed" =>
                  /\ after.state.consecutive_failures = fail_run'[m]
                  /\ after.state.consecutive_failures < failure_threshold
            /\ before.state.kind = "Closed" =>
                  /\ (after.state.kind = "Open") =
                        (/\ cb_call' = [op |-> "record_market_failure", market |-> m]
                         /\ fail_run'[m] = failure_threshold)
                  /\ after.state.kind # "HalfOpen"
                  /\ cb_call' = [op |-> "record_market_success", market |-> m] =>
                        after.state = Closed(0)]_vars

\* C9 witness: a breaker opened by failure_threshold failures in a row
\* after an earlier failure whose count a success had reset.
C9_Witness ==
    /\ is_market_open(breakers, 0)
    /\ cb_call = [op |-> "record_market_failure", market |-> 0]
    /\ fail_run[0] = failure_threshold
    /\ breakers[0].total_failures > failure_threshold
    /\ breakers[0].total_successes > 0

\* C10: an Open breaker keeps its state (and so its open-since instant)
\* under every call except an attempt_market_reset for its market made more
\* than the timeout after it opened, which makes it HalfOpen with zero
\* consecutive successes.
C10_OpenLeavesByReset ==
    [][\A m \in DOMAIN breakers :
        breakers[m].state.kind = "Open" =>
            IF /\ cb_call' = [op |-> "attempt_market_reset", market |-> m]
               /\ now - breakers[m].state.since > timeout
            THEN breakers'[m].state = HalfOpen(0)
            ELSE breakers'[m].state = breakers[m].state]_vars

\* C10 witness: a reset made the breaker HalfOpen once the timeout had
\* passed, after a success and a failure had reached it while Open.
C10_Witness ==
    /\ 0 \in DOMAIN breakers
    /\ breakers[0].state = HalfOpen(0)
    /\ cb_call = [op |-> "attempt_market_reset", market |-> 0]
    /\ breakers[0].total_failures > failure_threshold
    /\ breakers[0].total_successes > 0
    /\ fail_run[0] > 0

\* C30: once the global validation breaker has been Open for more than the
\* timeout, some call moves it to HalfOpen, as attempt_market_reset does for a
\* market breaker
C30_ValidationBreakerResets ==
    (/\ is_validation_circuit_open(global_validation_breaker)
     /\ TimedOut(global_validation_breaker.state.since, now))
        => ENABLED (NextCB /\ global_validation_breaker'.state.kind = "HalfOpen")

\* C11: a HalfOpen breaker becomes Closed exactly on the success that makes
\* the successes recorded since it became HalfOpen success_threshold, and
\* then with zero consecutive failures; a failure recorded while HalfOpen,
\* and nothing else, makes it Open with the instant of that failure as its
\* open-since instant.
C11_HalfOpenLeaves ==
    [][\A m \in DOMAIN breakers :
        breakers[m].state.kind = "HalfOpen" =>
            /\ (breakers'[m].state.kind = "Closed") =
                  (/\ cb_call' = [op |-> "record_market_success", market |-> m]
                   /\ succ_run'[m] = success_threshold)
            /\ breakers'[m].state.kind = "Closed" => breakers'[m].state = Closed(0)
            /\ (breakers'[m].state.kind = "Open") =
                  (cb_call' = [op |-> "record_market_failure", market |-> m])
            /\ breakers'[m].state.kind = "Open" =>
                  breakers'[m].state = Open(now', Reason)
            /\ breakers'[m].state.kind = "HalfOpen" =>
                  breakers'[m].state.consecutive_successes = succ_run'[m]]_vars

\* C11 witness: a breaker opened by its failures, made HalfOpen by a reset
\* after the timeout, and closed by the success_threshold-th success.
C11_Witness ==
    /\ 0 \in DOMAIN breakers
    /\ breakers[0].state = Closed(0)
    /\ cb_call = [op |-> "record_market_success", market |-> 0]
    /\ succ_run[0] = success_threshold
    /\ breakers[0].total_successes = success_threshold
    /\ breakers[0].total_failures = failure_threshold
    /\ now > timeout

----------------------------------------------------------------------------
(* Claims on the DynamicMarketRegistry *)

\* C12: what a reader's group of lookups returns is what the lookups return
\* on the maps of one catalogue: the empty one of a new registry or the one
\* built from one universe.
C12_NoPartialSwap ==
    reg_seen \in {Lookups(RegistryNew)} \cup {Lookups(NewMaps(u)) : u \in Universes}

----------------------------------------------------------------------------
(* Claims on the ingest paths *)

\* C13: every order resting in the book has a price that is finite,
\* positive and at most max_price, and a size that is finite, positive and
\* at most max_size, whichever path fed the book.
C13_OnlyValidOrdersRest ==
    \A level \in FastAllLevels(fob) : \A i \in 1..Len(level.orders) :
        /\ level.orders[i].price \notin {NaN, PosInf}
        /\ level.orders[i].price > 0
        /\ level.orders[i].price <= max_price
        /\ level.orders[i].size \notin {NaN, PosInf}
        /\ level.orders[i].size > 0
        /\ level.orders[i].size <= max_size

\* C14: the step of the parser path that handles a valid non-trigger line
\* of status filled or canceled for the served market publishes a
\* MarketUpdate, holding one Remove delta, if and only if an order of that
\* id rested on that side of the book and the step removed it.
C14_RemoveDeltaIffRemoved ==
    [][(/\ ing'.path = "parser"
        /\ ing'.ret \in {"Ok(true)", "Ok(false)"}
        /\ ~ing'.line.is_trigger
        /\ ing'.line.status \in {"filled", "canceled"}) =>
            LET is_buy == ing'.line.side = "B"
                rests(f) == \E level \in FastAllLevels(f) :
                               /\ level \in {(IF is_buy THEN f.bid_levels ELSE f.ask_levels)[i] :
                                               i \in 1..Len(IF is_buy THEN f.bid_levels
                                                                     ELSE f.ask_levels)}
                               /\ LevelPosition(level, ing'.line.oid) >= 0
            IN  /\ (ing'.update # {}) = (rests(fob) /\ fob'.total_orders < fob.total_orders)
                /\ \A u \in ing'.update :
                      u.deltas[1].kind = (IF is_buy THEN "RemoveBid" ELSE "RemoveAsk")]_vars

\* C23: a line with is_trigger set that the ingest loop takes leaves the
\* book as it was and publishes no update; when the line passed validation
\* and its market is served, the StopOrderManager gains the order if and
\* only if the status is Open
C23_TriggerOrdersBypassBook ==
    [][(ing'.path = "parser" /\ ing'.line.is_trigger) =>
           /\ fob' = fob
           /\ ing'.update = {}
           /\ ing'.ret # "Err" =>
                  LET added == /\ ing'.line.oid \in DOMAIN stops'.all_orders
                               /\ Cardinality(IndexEntries(stops'))
                                      = Cardinality(IndexEntries(stops)) + 1
                  IN  /\ added <=> ing'.line.status = "open"
                      /\ ~added => stops' = stops]_vars

\* an Open trigger line was taken while the book held an order
C23_Witness ==
    /\ ing.path = "parser"
    /\ ing.line.is_trigger
    /\ ing.line.status = "open"
    /\ ing.ret = "Ok(false)"
    /\ ing.line.oid \in DOMAIN stops.all_orders
    /\ fob.total_orders > 0

----------------------------------------------------------------------------
(* Claims on the fan-out *)

\* C15: a stream task that holds a snapshot while its subscriber's queue is
\* full does not wait: its next step is enabled, and that step makes the
\* task exit.
C15_FullQueueCloses ==
    (task.pc = "send" /\ chan.open /\ Len(chan.queue) = QueueCap) =>
        ENABLED (StreamTaskSend /\ task'.pc = "exited")

\* C16: the recv of a receiver that lagged past the capacity of the bus
\* makes the task exit; a task that exited stays so and sends nothing
\* more; a publish appends at the tail whatever the subscriber does, needs
\* nothing of the subscriber and changes nothing of it.
C16_LaggedTaskExits ==
    [][/\ (task.pc = "recv" /\ bus.tail - task.next > BusCap /\ task' # task) =>
            (task'.pc = "exited" /\ chan' = chan)
       /\ task.pc = "exited" =>
            (task' = task /\ Len(chan'.queue) <= Len(chan.queue))
       /\ bus.tail < MaxPublish => ENABLED Publish(0)
       /\ bus' # bus =>
            (bus'.tail = bus.tail + 1 /\ task' = task /\ chan' = chan)]_vars

\* C16 witness: the task exited at a recv with the stream still open, its
\* receiver more than BusCap messages behind, after it had sent a snapshot.
C16_Witness ==
    /\ task.pc = "exited"
    /\ chan.open
    /\ bus.tail - task.next > BusCap
    /\ task.out > 0

\* C17: every snapshot queued for the subscriber, or in the task's hand, is
\* of a market of the request; and while the client holds the stream every
\* update of a requested market with a book that the task received has one
\* snapshot, queued or in hand.
C17_OnlyRequestedMarkets ==
    /\ \A i \in 1..Len(chan.queue) : chan.queue[i].market_id \in task.requested
    /\ \A u \in task.hand : u.market_id \in task.requested
    /\ chan.open => task.out + Cardinality(task.hand) = task.got

\* C17 witness: a request for markets 0 and 2; the task passed over an
\* update of market 1 and has sent two snapshots of market 0.
C17_Witness ==
    /\ task.requested = {0, 2}
    /\ task.out = 2
    /\ task.next > 2
    /\ chan.open
    /\ Len(chan.queue) = 2


----------------------------------------------------------------------------
(* Mark-price service and calculator *)

\* C18: a step of the tick that calculates for a market whose bid or ask side
\* is empty at that moment updates no cache entry and sends no
\* MarkPriceUpdate, whatever the ingest did to the book during the tick
C18_EmptySidePublishesNothing ==
    [][\A m \in orderbooks :
          (TickCalculate(m) /\ (mbook[m].best_bid = {} \/ mbook[m].best_ask = {}))
              => (mark_tx' = mark_tx /\ svc'.cache = svc.cache)]_vars

\* C19: the versions on the mark-price channel never decrease; two events of
\* one tick carry one version and an event of a later tick a larger one
C19_VersionsGrowByTick ==
    \A i, j \in 1..Len(mark_tx) :
        /\ i <= j => mark_tx[i].calculation_version <= mark_tx[j].calculation_version
        /\ mark_tx[i].tick = mark_tx[j].tick
               => mark_tx[i].calculation_version = mark_tx[j].calculation_version
        /\ mark_tx[i].tick < mark_tx[j].tick
               => mark_tx[i].calculation_version < mark_tx[j].calculation_version

\* two markets published in one tick and a market published in a later one
C19_Witness ==
    \E i, j, k \in 1..Len(mark_tx) :
        /\ mark_tx[i].tick = mark_tx[j].tick
        /\ mark_tx[i].market_id # mark_tx[j].market_id
        /\ mark_tx[j].tick < mark_tx[k].tick

\* C20: a stored result has used_fallback exactly when one of the oracle-
\* adjusted price and the CEX median is present beside the internal median,
\* and its mark_price is then the middle one of the two present inputs and
\* the mid EMA of that calculation: one of the three, with at least two of
\* them no larger and at least two no smaller
C20_FallbackOnTwoInputs ==
    \A m \in orderbooks : \A r \in mbook[m].last_hl_mark_price :
        LET present == OptSeq(r.oracle_adjusted) \o <<r.internal_median>> \o OptSeq(r.cex_median)
        IN /\ r.used_fallback <=> Len(present) = 2
           /\ r.used_fallback =>
                \E ema \in mbook[m].hl_mark_price_calc.fallback_mid_ema :
                    LET three == Append(present, ema)
                    IN /\ \E i \in 1..3 : three[i] = r.mark_price
                       /\ Cardinality({i \in 1..3 : three[i] <= r.mark_price}) >= 2
                       /\ Cardinality({i \in 1..3 : three[i] >= r.mark_price}) >= 2

\* the fallback was used with the oracle-adjusted price and no CEX median, and
\* the mid EMA, different from both inputs, was the median
C20_Witness ==
    \E r \in mbook[ServedMarket].last_hl_mark_price :
        /\ r.used_fallback
        /\ r.oracle_adjusted # {}
        /\ r.mark_price \in mbook[ServedMarket].hl_mark_price_calc.fallback_mid_ema
        /\ r.mark_price # r.internal_median
        /\ r.oracle_adjusted # {r.mark_price}

----------------------------------------------------------------------------
(* Claims on the stop orders *)

\* C21: after any add_stop_order and remove_stop_order calls, an id is held
\* by at most one entry of the per-market/per-user index, so neither
\* get_stop_orders_by_market nor get_stop_orders_by_user, which return the
\* entries of one market or of one user, returns an id twice
C21_IdsOccurOnce ==
    \A e1 \in IndexEntries(stops), e2 \in IndexEntries(stops) :
        stops.orders_by_market[e1[1]][e1[2]][e1[3]].id
            = stops.orders_by_market[e2[1]][e2[2]][e2[3]].id
        => e1 = e2

\* the index entries that hold an id
HoldersOf(s, id) ==
    {x \in IndexEntries(s) : s.orders_by_market[x[1]][x[2]][x[3]].id = id}

\* C32: when remove_stop_order removes an id that the index held once, no
\* entry of the index holds the id afterwards, so neither by_market nor
\* by_user returns it, and get_all_stop_orders does not either
C32_RemovedIdIsGone ==
    [][\A id \in {1, 2} :
           (/\ id \in DOMAIN stops.all_orders
            /\ id \notin DOMAIN stops'.all_orders
            /\ Cardinality(HoldersOf(stops, id)) = 1)
               => HoldersOf(stops', id) = {}]_vars

\* the lock a thread is about to take for writing, "" when it is not
\* about to take one
Wanted(t) ==
    CASE locks.pc[t] \in {"add_market", "remove_market"} -> "orders_by_market"
      [] locks.pc[t] \in {"add_all", "remove_all"} -> "all_orders"
      [] OTHER -> ""

\* C35: two threads that call add_stop_order and remove_stop_order at the
\* same time never wait for each other: no thread waits for a lock held by
\* a thread that waits for a lock held by the first
C35_NoDeadlock ==
    \A t \in Threads, u \in Threads :
        ~(/\ t # u
          /\ Wanted(t) # "" /\ locks.holder[Wanted(t)] = u
          /\ Wanted(u) # "" /\ locks.holder[Wanted(u)] = t)

\* C36: once the ingest loop has taken a line that reports a trigger order
\* of the registry as canceled or filled, no stop-order query returns the
\* order: it is neither in all_orders nor in the index by market and user
C36_ClosedTriggerLeavesRegistry ==
    [][(/\ ing'.path = "parser"
        /\ parser'.total_messages = parser.total_messages + 1
        /\ ing'.line.is_trigger
        /\ ing'.line.status \in {"filled", "canceled"}
        /\ ing'.ret # "Err"
        /\ ing'.line.oid \in DOMAIN stops.all_orders) =>
           /\ ing'.line.oid \notin DOMAIN stops'.all_orders
           /\ HoldersOf(stops', ing'.line.oid) = {}]_vars

\* the total size resting on the levels
LiquidityOf(levels) ==
    LET RECURSIVE sum(_)
        sum(i) == IF i = 0 THEN 0 ELSE sum(i - 1) + levels[i][2]
    IN sum(Len(levels))

\* the levels a ranked order would trade against: the asks for a buy
OppositeSide(r) == IF r.order.side = "B" THEN stop_ret.book[2] ELSE stop_ret.book[1]

C28_SentinelOnShortfall ==
    \A i \in 1..Len(stop_ret.ranked) :
        LiquidityOf(OppositeSide(stop_ret.ranked[i])) < stop_ret.ranked[i].order.size
            => stop_ret.ranked[i].expected_slippage_bps = 1000

----------------------------------------------------------------------------
(* Claims on the binary tail *)

\* C24: each stored offset (MarketProcessor.last_position, the FileMonitor's
\* file position) moves only forward and by a multiple of the 38-byte
\* record size, and after the step it is within the complete records of the
\* file: the bytes of an unfinished trailing record stay unconsumed
C24_OffsetAdvancesByRecords ==
    [][\A position \in {"last_position", "file_position"} :
           /\ tail'[position] >= tail[position]
           /\ (tail'[position] - tail[position]) % ORDER_SIZE = 0
           /\ tail'[position] % ORDER_SIZE = 0
           /\ tail'[position] <= ORDER_SIZE * Len(tail'.file)
           /\ tail'[position] <= FileLen(tail')]_vars

\* both tailers consumed two records and the file ends in half a record
C24_Witness ==
    /\ tail.partial = 19
    /\ tail.last_position = 2 * ORDER_SIZE
    /\ tail.file_position = 2 * ORDER_SIZE
    /\ FileLen(tail) = 2 * ORDER_SIZE + 19

----------------------------------------------------------------------------
(* Claims on the RateLimitInterceptor *)

\* the calls of a client admitted while the window of call i was open
AdmittedInWindowOf(log, i) ==
    {j \in 1..Len(log) : /\ log[j].client = log[i].client
                         /\ log[j].ok
                         /\ log[j].at >= log[i].window_start
                         /\ log[j].at < log[i].window_start + 60}

\* C25: a call of a client is admitted exactly when fewer than
\* max_requests_per_minute of its calls were admitted in its current
\* 60-second window, so no window admits more than that many; a rejected
\* call leaves the client's count as it was, and no call changes the entry
\* of another client
C25_FixedWindowPerClient ==
    [][\A client_id \in {"client1", "client2"} :
           (Len(rl'.log) = Len(rl.log) + 1 /\ rl'.log[Len(rl'.log)].client = client_id) =>
               LET call == rl'.log[Len(rl'.log)]
                   open == /\ client_id \in DOMAIN rl.limits
                           /\ rl.clock - rl.limits[client_id].window_start < 60
                   prior == IF open THEN rl.limits[client_id].count ELSE 0
               IN  /\ call.ok <=> prior < max_requests_per_minute
                   /\ ~call.ok => rl'.limits[client_id].count = prior
                   /\ open => call.window_start = rl.limits[client_id].window_start
                   /\ \A i \in 1..Len(rl'.log) :
                          Cardinality(AdmittedInWindowOf(rl'.log, i)) <= max_requests_per_minute
                   /\ \A other \in {"client1", "client2"} \ {client_id} :
                          /\ other \in DOMAIN rl'.limits <=> other \in DOMAIN rl.limits
                          /\ other \in DOMAIN rl.limits => rl'.limits[other] = rl.limits[other]]_vars

\* client1 was rejected in a full window and admitted again once the window
\* had elapsed, and client2 was admitted while client1 was at its limit
C25_Witness ==
    \E i \in 1..Len(rl.log), j \in 1..Len(rl.log), k \in 1..Len(rl.log) :
        /\ i < j
        /\ rl.log[i].client = "client1" /\ ~rl.log[i].ok
        /\ rl.log[j].client = "client1" /\ rl.log[j].ok
        /\ rl.log[j].window_start >= rl.log[i].window_start + 60
        /\ rl.log[k].client = "client2" /\ rl.log[k].ok
        /\ rl.log[k].at = rl.log[i].at

----------------------------------------------------------------------------
(* Claims on the subscriber's snapshots *)

\* C29: every snapshot sent to a subscriber carries the sequence at which
\* the book had the levels the snapshot holds
C29_SnapshotMatchesSequence ==
    \A i \in 1..Len(sub.sent) :
        LET s == sub.sent[i]
        IN  IF s.sequence = 0 THEN s.book = fob_get_snapshot(FastNew, 50)
            ELSE /\ s.sequence <= Len(sub.books)
                 /\ s.book = sub.books[s.sequence]

\* C34: the sequence numbers of the snapshots one subscriber receives for
\* the market never decrease in the order of delivery, the initial snapshot
\* and the first forwarded updates included
C34_SequencesNonDecreasing ==
    \A i \in 1..Len(sub.sent), j \in 1..Len(sub.sent) :
        i < j => sub.sent[i].sequence <= sub.sent[j].sequence

----------------------------------------------------------------------------
(* Claims on the JSON tail *)

\* the number of times a line was taken
TimesTaken(taken, k) == Cardinality({i \in 1..Len(taken) : taken[i] = k})

\* C38: the stored offset of a tail never exceeds the length of the file,
\* no line is taken twice, and every line that the offset has passed was
\* taken once
C38_CompleteLinesOnce ==
    /\ jtail.file_positions <= jtail.len
    /\ jtail.last_position <= jtail.len
    /\ \A k \in 1..MaxJsonLines :
           /\ TimesTaken(jtail.sent, k) <= 1
           /\ TimesTaken(jtail.deltas, k) <= 1
           /\ (k * JsonRecord <= jtail.file_positions) => TimesTaken(jtail.sent, k) = 1
           /\ (k * JsonRecord <= jtail.last_position) => TimesTaken(jtail.deltas, k) = 1

----------------------------------------------------------------------------
(* Claims on the parser's statistics *)

\* C39: a stats call that runs beside parse_line returns; the failures
\* its rate subtracts are at most the total it loaded, and the rate is
\* between 0 and 100
C39_SuccessRateInRange ==
    /\ stat.reader = "idle" => stat.failures <= stat.total
    /\ \A r \in stat.stats :
           /\ r.kind = "Ok"
           /\ r.success_rate >= 0
           /\ r.success_rate <= 100

----------------------------------------------------------------------------
(* Claims on the ingest loop *)

\* C31: a well-formed Open order of a market is applied to the market's book
\* whenever every failure the loop recorded so far came from lines of other
\* markets or of no market
C31_OtherMarketsUnaffected ==
    [][\A m \in {0, 1} :
           (/\ loop'.lines = loop.lines + 1
            /\ loop'.last.line = [kind |-> "open", market |-> m]
            /\ m \notin loop.failed)
               => loop'.applied[m] = loop.applied[m] + 1]_vars

\* C37: once the breaker has returned to Closed after a trip, the step that
\* opens it again has error_threshold errors behind it since that return
C37_NoRetripBelowThreshold ==
    [][(/\ loop.state.kind = "Closed"
        /\ loop.recovered
        /\ loop'.state.kind = "Open")
           => loop'.errors_since_close >= error_threshold]_vars

====
